---- MODULE Spec2Model ----
(***************************************************************************)
(* Caption timing and scene composition of synthesium.                     *)
(*                                                                         *)
(* Time.  The program computes with floats; the model computes with exact  *)
(* rationals.  One tick is 0.1 s, and a timing list carries a denominator: *)
(* an event time n of a list with denominator den is n/den ticks.  Every   *)
(* float literal of the code (0.6, 0.1, 0.3, 0.5) is a whole number of     *)
(* ticks.                                                                  *)
(*                                                                         *)
(* Text.  A text is a sequence of one-character strings; a word is a       *)
(* non-empty text without whitespace.                                      *)
(***************************************************************************)
EXTENDS Integers, Sequences, FiniteSets, TLC

VARIABLES
    pc,              \* position of the modelled call ("input", then "done", then
                     \* "again" for a second application), of
                     \* the one-scene run ("idle", "assets", "composed", "failed")
                     \* or of synth.create_video ("start", "generating",
                     \* "composing", "returned", "raised"), of the camera
                     \* movement ("still", "moving", "frame", "failed"), or
                     \* the last operation on the cache or on the channel
    text,            \* the text argument (voiceover / expected text)
    duration,        \* the duration argument, in ticks
    whisper_words,   \* the external word timings argument (events, denominator 1)
    current_time,    \* the query time of create_progressive_text, in ticks
    result,          \* what the call returned
    settings,        \* config.settings as the running process sees it
    metadata,        \* CacheManager.metadata: audio and whisper entries by content
    cache_files,     \* the audio files of the cache directory, by content
    assets_dir,      \* the audio file of every scene index in <work_dir>/assets
    transcription,   \* what the last call of the transcription provider did
    scene_assets,    \* what the last generate_scene_assets returned
    clip,            \* what the last create_scene_clip returned
    script,          \* the script argument of synth.create_video
    scene_assets_list, \* the assets generated so far, in the order of generation
    clips,           \* the scene clips composed so far, in the order of composition
    final_video,     \* the concatenated clip
    calls,           \* the provider and library calls of the run, in order
    open_clips,      \* the media resources opened and not closed
    output_file,     \* what lies at output_path: "absent", "partial" or "complete"
    dirs,            \* the directories the run created
    image_files,     \* the image file of every scene index in <work_dir>/assets
    fonts,           \* the font that renders each word event: the preferred
                     \* one, only the fallback, or none
    encode,          \* what write_videofile did
    cache_image_files, \* the image files of the cache directory, by content
    music_dir,       \* the tracks found in settings.MUSIC_DIR
    channel_dir,     \* a channel's directory: config.json state, character.json,
                     \* videos/
    available_channels \* ChannelManager.available_channels: the state of the
                     \* channel's config as the instance loaded it

callVars == <<pc, text, duration, whisper_words, current_time, result>>

pipelineVars ==
    <<settings, metadata, cache_files, assets_dir, transcription, scene_assets, clip>>

runVars ==
    <<script, scene_assets_list, clips, final_video, calls, open_clips, output_file,
      dirs, image_files, fonts, encode, cache_image_files, music_dir, channel_dir,
      available_channels>>

channelVars == <<channel_dir, available_channels>>

vars == <<pc, text, duration, whisper_words, current_time, result,
          settings, metadata, cache_files, assets_dir, transcription, scene_assets, clip,
          script, scene_assets_list, clips, final_video, calls, open_clips, output_file,
          dirs, image_files, fonts, encode, cache_image_files, music_dir, channel_dir,
          available_channels>>

----------------------------------------------------------------------------
(* Bounds of the model *)

MaxTextLen == 7          \* characters of a text given to calculate_word_timings
MaxDuration == 25        \* ticks of the longest audio
MaxExpectedWords == 5    \* words of an expected text given to validate_transcription
MaxWhisperWords == 2     \* events of an external timing list
MaxTime == 3             \* external event times are 0, TimeStep, .., MaxTime * TimeStep
TimeStep == 2            \* ticks between two possible external event times
MaxTarget == 9           \* ticks of the longest target duration of a reconciliation

(* Program constants, in ticks *)

WORD_DISPLAY_DURATION == 6
WORD_TRANSITION_GAP == 1
MinWordDuration == 3
AdjustTolerance == 5

(* similarity >= 0.6, as SimilarityNum / SimilarityDen *)
SimilarityNum == 6
SimilarityDen == 10

----------------------------------------------------------------------------
(* Helpers *)

(* Python's None; optional values are records, so None is one too *)
None == [none |-> TRUE]

Max(a, b) == IF a >= b THEN a ELSE b

Abs(a) == IF a >= 0 THEN a ELSE 0 - a

SeqsUpTo(S, n) == UNION {[1..k -> S] : k \in 0..n}

IsWhitespace(c) == c = " "

(* str.split(): the maximal runs of non-whitespace characters, in order *)
RECURSIVE SplitFrom(_, _, _, _)
SplitFrom(s, i, cur, acc) ==
    IF i > Len(s)
    THEN IF cur = <<>> THEN acc ELSE Append(acc, cur)
    ELSE IF IsWhitespace(s[i])
         THEN SplitFrom(s, i + 1, <<>>, IF cur = <<>> THEN acc ELSE Append(acc, cur))
         ELSE SplitFrom(s, i + 1, Append(cur, s[i]), acc)

StrSplit(s) == SplitFrom(s, 1, <<>>, <<>>)

(* CaptionService.split_text_into_words *)
split_text_into_words(t) == StrSplit(t)

----------------------------------------------------------------------------
(* The state around the calls: settings, cache, work directory *)

(* the scene indexes of the scripts: one scene *)
SceneIndexes == {0}

(* voiceover texts of the scripts *)
VoiceoverTexts == {<<"a">>, <<"a", " ", "b">>}

(* durations, in ticks, of the audio the speech provider returns *)
AudioDurations == {8, 14}

(* the largest end_time, in ticks, of a transcription *)
WhisperMeasured == {0, 8, 16}

DefaultSettings ==
    [ENABLE_CACHE |-> TRUE, ENABLE_WHISPER_TIMING |-> TRUE,
     FORCE_REGENERATE_AUDIO |-> FALSE]

(* scene descriptions of the scripts *)
SceneDescriptions == {<<"d">>, <<"e">>}

(* how OpenAIService.generate_image words the prompt it sends: the plain   *)
(* prefix without character consistency; with it, what the prompt          *)
(* optimizer answered or, when that call failed, the concatenation         *)
PromptWordings == {"cinematic", "optimized", "concatenated"}

(* the prompts generate_image sends, which are the contents the image      *)
(* cache is keyed by                                                       *)
ImagePrompts == [scene : SceneDescriptions, wording : PromptWordings]

(* CacheManager._load_metadata with no metadata file *)
EmptyMetadata ==
    [images |-> {}, audio |-> {}, whisper |-> [t \in VoiceoverTexts |-> None]]

NoCall == [kind |-> "not_called"]

PipelineAtRest ==
    /\ settings = DefaultSettings
    /\ metadata = EmptyMetadata
    /\ cache_files = [t \in VoiceoverTexts |-> None]
    /\ assets_dir = [i \in SceneIndexes |-> None]
    /\ transcription = NoCall
    /\ scene_assets = None
    /\ clip = None

(* no run of synth.create_video under way *)
RunAtRest ==
    /\ script = <<>>
    /\ scene_assets_list = <<>>
    /\ clips = <<>>
    /\ final_video = None
    /\ calls = <<>>
    /\ open_clips = {}
    /\ output_file = "absent"
    /\ dirs = {}
    /\ image_files = <<>>
    /\ fonts = <<>>
    /\ encode = NoCall
    /\ cache_image_files = [p \in ImagePrompts |-> None]
    /\ music_dir = {}
    /\ channel_dir = None
    /\ available_channels = None

----------------------------------------------------------------------------
(* CaptionService.calculate_word_timings, the synthesized branch.          *)
(* Times of the returned list have denominator W = Len(words), so that     *)
(* duration / len(words) is exact.                                         *)

(* total_needed_time > duration *)
MustCompress(W, D) == W * (WORD_DISPLAY_DURATION + WORD_TRANSITION_GAP) > D

ActualWordDurationNoFloor(W, D) ==
    IF MustCompress(W, D)
    THEN D - W * WORD_TRANSITION_GAP
    ELSE W * WORD_DISPLAY_DURATION

(* actual_word_duration, times W *)
ActualWordDuration(W, D) ==
    IF MustCompress(W, D)
    THEN Max(W * MinWordDuration, D - W * WORD_TRANSITION_GAP)
    ELSE W * WORD_DISPLAY_DURATION

NextStartNoGap(end_time, W) == end_time

(* current_time = end_time + self.transition_gap, times W *)
NextStart(end_time, W) == end_time + W * WORD_TRANSITION_GAP

(* the loop over enumerate(words) *)
RECURSIVE LayoutFrom(_, _, _, _, _)
LayoutFrom(words, i, cur, dur, acc) ==
    IF i > Len(words)
    THEN acc
    ELSE LET start_time == cur
             end_time == start_time + dur
         IN LayoutFrom(words, i + 1, NextStart(end_time, Len(words)), dur,
                Append(acc, [word |-> words[i], start_time |-> start_time,
                             end_time |-> end_time, index |-> i - 1]))

SynthesizedTimings(t, D) ==
    LET words == split_text_into_words(t)
        W == Len(words)
    IN IF W = 0
       THEN [den |-> 1, ev |-> <<>>]
       ELSE [den |-> W, ev |-> LayoutFrom(words, 1, 0, ActualWordDuration(W, D), <<>>)]

(* whisper_timing is None, or a record with word_timings (a timing list) *)
calculate_word_timings(t, D, whisper_timing) ==
    IF whisper_timing # None /\ whisper_timing.word_timings.ev # <<>>
    THEN whisper_timing.word_timings
    ELSE SynthesizedTimings(t, D)

----------------------------------------------------------------------------
(* WhisperService.validate_transcription *)

UpperCase == {"A", "B"}
LowerCase == {"a", "b"}

(* str.lower(), one character *)
Lower(c) == CASE c = "A" -> "a" [] c = "B" -> "b" [] OTHER -> c

(* \w or \s: what re.sub(r'[^\w\s]', '', text) keeps *)
IsWordOrSpace(c) == c \in LowerCase \cup UpperCase \cup {" "}

(* normalize_text: lower-case, drop punctuation, split *)
normalize_text(t) ==
    StrSplit(SelectSeq([i \in 1..Len(t) |-> Lower(t[i])], IsWordOrSpace))

(* whisper_words_clean: the first normalized token of every word, the      *)
(* empty ones removed                                                      *)
whisper_words_clean(ww) ==
    LET first(w) == IF normalize_text(w.word) # <<>>
                    THEN normalize_text(w.word)[1] ELSE <<>>
        NonEmpty(x) == x # <<>>
    IN SelectSeq([i \in 1..Len(ww) |-> first(ww[i])], NonEmpty)

InSeq(x, sq) == \E i \in 1..Len(sq) : sq[i] = x

(* the loop counting matching_words *)
RECURSIVE MatchingFrom(_, _, _, _)
MatchingFrom(expected, clean, i, n) ==
    IF i > Len(expected)
    THEN n
    ELSE MatchingFrom(expected, clean, i + 1,
                      IF InSeq(expected[i], clean) THEN n + 1 ELSE n)

SimilarEnoughStrict(matching, total) ==
    total > 0 /\ matching * SimilarityDen > SimilarityNum * total

(* matching_words / len(expected_words_clean) >= 0.6, and 0 for no words *)
SimilarEnough(matching, total) ==
    total > 0 /\ matching * SimilarityDen >= SimilarityNum * total

validate_transcription(ww, expected_text) ==
    IF ww = <<>>
    THEN FALSE
    ELSE LET clean == whisper_words_clean(ww)
             expected_words_clean == normalize_text(expected_text)
             matching_words == MatchingFrom(expected_words_clean, clean, 1, 0)
         IN SimilarEnough(matching_words, Len(expected_words_clean))

----------------------------------------------------------------------------
(* WhisperService.adjust_timings_to_duration.  The argument and the result *)
(* are timing lists; D is in ticks.                                        *)

ZeroDivisionError == [error |-> "ZeroDivisionError"]

Raised(r) == "error" \in DOMAIN r

RECURSIVE MaxEndFrom(_, _, _)
MaxEndFrom(ev, i, m) ==
    IF i > Len(ev) THEN m
    ELSE MaxEndFrom(ev, i + 1, Max(m, ev[i].end_time))

(* max(w['end_time'] for w in word_timings), of a non-empty list *)
MaxEnd(ev) == MaxEndFrom(ev, 2, ev[1].end_time)

CloseToTargetInclusive(M, den, D) == Abs(M - D * den) <= AdjustTolerance * den

(* abs(whisper_duration - target_duration) < 0.5 *)
CloseToTarget(M, den, D) == Abs(M - D * den) < AdjustTolerance * den

ScaledToDouble(e, D) ==
    [word |-> e.word, start_time |-> e.start_time * 2 * D,
     end_time |-> e.end_time * 2 * D]

ScaledStartOnly(e, D) ==
    [word |-> e.word, start_time |-> e.start_time * D, end_time |-> e.end_time]

(* one adjusted event: times multiplied by target / whisper_duration; the  *)
(* result list has denominator M                                           *)
Scaled(e, D) ==
    [word |-> e.word, start_time |-> e.start_time * D, end_time |-> e.end_time * D]

adjust_timings_to_duration(wt, D) ==
    IF wt.ev = <<>>
    THEN wt
    ELSE LET M == MaxEnd(wt.ev)
         IN IF CloseToTarget(M, wt.den, D)
            THEN wt
            ELSE IF M = 0
                 THEN ZeroDivisionError
                 ELSE [den |-> M,
                       ev |-> [i \in 1..Len(wt.ev) |-> Scaled(wt.ev[i], D)]]

----------------------------------------------------------------------------
(* CaptionService.create_progressive_text in single_word_pop mode: the     *)
(* word of the first event whose interval holds t, else the empty string   *)

VisibleAtInclusive(e, den, t) == e.start_time <= t * den /\ t * den <= e.end_time

(* word_timing['start_time'] <= current_time < word_timing['end_time'] *)
VisibleAt(e, den, t) == e.start_time <= t * den /\ t * den < e.end_time

RECURSIVE ProgressiveFrom(_, _, _)
ProgressiveFrom(wt, i, t) ==
    IF i > Len(wt.ev) THEN <<>>
    ELSE IF VisibleAt(wt.ev[i], wt.den, t) THEN wt.ev[i].word
         ELSE ProgressiveFrom(wt, i + 1, t)

create_progressive_text(wt, t) == ProgressiveFrom(wt, 1, t)

----------------------------------------------------------------------------
(* Specifications of the three functions over bounded inputs *)

(* expected texts: up to MaxExpectedWords pieces joined by single spaces *)
ExpectedPieces == {<<"a">>, <<"B", "-">>, <<"a", "-", "b">>}

RECURSIVE JoinFrom(_, _, _)
JoinFrom(ps, i, acc) ==
    IF i > Len(ps) THEN acc
    ELSE JoinFrom(ps, i + 1, IF i = 1 THEN ps[i] ELSE acc \o <<" ">> \o ps[i])

Join(ps) == JoinFrom(ps, 1, <<>>)

ExpectedTexts == {Join(ps) : ps \in SeqsUpTo(ExpectedPieces, MaxExpectedWords)}

(* words as the transcription provider returns them: stripped, no inner    *)
(* whitespace, punctuation attached                                        *)
WhisperWordTexts == {<<"A">>, <<"b", ".">>, <<"-">>, <<"a", "b">>}

TranscribedWords ==
    SeqsUpTo({[word |-> w, start_time |-> 0, end_time |-> 0] : w \in WhisperWordTexts},
             MaxWhisperWords)

InitValidate ==
    /\ pc = "input"
    /\ text \in ExpectedTexts
    /\ duration = 0
    /\ whisper_words \in TranscribedWords
    /\ current_time = 0
    /\ result = None
    /\ PipelineAtRest
    /\ RunAtRest

ValidateTranscription ==
    /\ pc = "input"
    /\ pc' = "done"
    /\ result' = [valid |-> validate_transcription(whisper_words, text)]
    /\ UNCHANGED <<text, duration, whisper_words, current_time>>
    /\ UNCHANGED pipelineVars
    /\ UNCHANGED runVars

NextValidate == ValidateTranscription

SpecValidate == InitValidate /\ [][NextValidate]_vars

ExtTimes == {k * TimeStep : k \in 0..MaxTime}

ExtEvents ==
    {[word |-> w, start_time |-> s, end_time |-> e] :
        w \in {<<"a">>, <<"b">>}, s \in ExtTimes, e \in ExtTimes}

(* external events never end before they start *)
ExtTimings ==
    SeqsUpTo({e \in ExtEvents : e.start_time <= e.end_time}, MaxWhisperWords)

InitAdjust ==
    /\ pc = "input"
    /\ text = <<>>
    /\ duration \in 0..MaxTarget
    /\ whisper_words \in ExtTimings
    /\ current_time = 0
    /\ result = None
    /\ PipelineAtRest
    /\ RunAtRest

AdjustTimingsToDuration ==
    /\ pc = "input"
    /\ pc' = "done"
    /\ result' = adjust_timings_to_duration([den |-> 1, ev |-> whisper_words], duration)
    /\ UNCHANGED <<text, duration, whisper_words, current_time>>
    /\ UNCHANGED pipelineVars
    /\ UNCHANGED runVars

(* adjust_timings_to_duration(adjust_timings_to_duration(x, D), D): the     *)
(* second application, to what the first one returned                      *)
AdjustAgain ==
    /\ pc = "done"
    /\ ~Raised(result)
    /\ pc' = "again"
    /\ result' = adjust_timings_to_duration(result, duration)
    /\ UNCHANGED <<text, duration, whisper_words, current_time>>
    /\ UNCHANGED pipelineVars
    /\ UNCHANGED runVars

NextAdjust ==
    \/ AdjustTimingsToDuration
    \/ AdjustAgain

SpecAdjust == InitAdjust /\ [][NextAdjust]_vars

InitLookup ==
    /\ pc = "input"
    /\ text = <<>>
    /\ duration = 0
    /\ whisper_words \in ExtTimings
    /\ current_time \in 0..(MaxTime * TimeStep + 1)
    /\ result = None
    /\ PipelineAtRest
    /\ RunAtRest

CreateProgressiveText ==
    /\ pc = "input"
    /\ pc' = "done"
    /\ result' = [shown |-> create_progressive_text([den |-> 1, ev |-> whisper_words],
                                                    current_time)]
    /\ UNCHANGED <<text, duration, whisper_words, current_time>>
    /\ UNCHANGED pipelineVars
    /\ UNCHANGED runVars

NextLookup == CreateProgressiveText

SpecLookup == InitLookup /\ [][NextLookup]_vars

----------------------------------------------------------------------------
(* Specification of calculate_word_timings over bounded inputs *)

TimingAlphabet == {"a", "b", " "}

InitTimings ==
    /\ pc = "input"
    /\ text \in SeqsUpTo(TimingAlphabet, MaxTextLen)
    /\ duration \in 0..MaxDuration
    /\ whisper_words = <<>>
    /\ current_time = 0
    /\ result = None
    /\ PipelineAtRest
    /\ RunAtRest

CalculateWordTimings ==
    /\ pc = "input"
    /\ pc' = "done"
    /\ result' = calculate_word_timings(text, duration, None)
    /\ UNCHANGED <<text, duration, whisper_words, current_time>>
    /\ UNCHANGED pipelineVars
    /\ UNCHANGED runVars

NextTimings == CalculateWordTimings

SpecTimings == InitTimings /\ [][NextTimings]_vars

----------------------------------------------------------------------------
(* Properties of the synthesized timings *)

(* number of whitespace-delimited words, counted on the text itself *)
WordCount(t) ==
    Cardinality({i \in 1..Len(t) :
        ~IsWhitespace(t[i]) /\ (i = 1 \/ IsWhitespace(t[i - 1]))})

Synthesized == pc = "done" /\ WordCount(text) >= 1

LastEnd(r) == r.ev[Len(r.ev)].end_time

Span(r) == LastEnd(r) - r.ev[1].start_time

(* C1: for a text with at least one word and D > 0 the synthesized events  *)
(* are exactly word_count(text) many, event i carries index i and the i-th *)
(* word, the first starts at 0, consecutive events do not overlap, and the *)
(* last event ends no later than D.                                        *)
C1_CoversDuration ==
    (Synthesized /\ duration > 0) =>
        /\ Len(result.ev) = WordCount(text)
        /\ \A i \in 1..Len(result.ev) :
              /\ result.ev[i].index = i - 1
              /\ result.ev[i].word = StrSplit(text)[i]
        /\ result.ev[1].start_time = 0
        /\ \A i \in 1..(Len(result.ev) - 1) :
              result.ev[i].end_time <= result.ev[i + 1].start_time
        /\ LastEnd(result) <= duration * result.den

(* C2, as claimed: in the compressed case the span of the events is        *)
(* exactly D and every visible duration is at least 0.3 s.                 *)
C2_SpanIsDuration ==
    (Synthesized /\ duration > 0 /\ MustCompress(WordCount(text), duration)) =>
        /\ Span(result) = duration * result.den
        /\ \A i \in 1..Len(result.ev) :
              result.ev[i].end_time - result.ev[i].start_time
                  >= MinWordDuration * result.den

(* C2, amended: in the compressed case every visible duration is at least  *)
(* 0.3 s; the span is D - gap when D / W - gap >= 0.3, and otherwise it is *)
(* W * 0.3 + (W - 1) * gap.                                                *)
C2_CompressedSpan ==
    (Synthesized /\ duration > 0 /\ MustCompress(WordCount(text), duration)) =>
        LET W == WordCount(text) IN
        /\ \A i \in 1..Len(result.ev) :
              result.ev[i].end_time - result.ev[i].start_time
                  >= MinWordDuration * result.den
        /\ IF duration - W * WORD_TRANSITION_GAP >= W * MinWordDuration
           THEN Span(result) = (duration - WORD_TRANSITION_GAP) * result.den
           ELSE Span(result) =
                   (W * MinWordDuration + (W - 1) * WORD_TRANSITION_GAP) * result.den

C2_Witness ==
    /\ Synthesized
    /\ duration > 0
    /\ MustCompress(WordCount(text), duration)
    /\ WordCount(text) >= 2
    /\ LastEnd(result) > duration * result.den

(* C3: in the uncompressed case every event lasts the configured           *)
(* word_duration, consecutive events are separated by exactly the          *)
(* configured gap, and the last event ends no later than D.                *)
C3_Uncompressed ==
    (Synthesized /\ ~MustCompress(WordCount(text), duration)) =>
        /\ \A i \in 1..Len(result.ev) :
              result.ev[i].end_time - result.ev[i].start_time
                  = WORD_DISPLAY_DURATION * result.den
        /\ \A i \in 1..(Len(result.ev) - 1) :
              result.ev[i + 1].start_time - result.ev[i].end_time
                  = WORD_TRANSITION_GAP * result.den
        /\ LastEnd(result) <= duration * result.den

C3_Witness ==
    /\ Synthesized
    /\ ~MustCompress(WordCount(text), duration)
    /\ WordCount(text) >= 3

----------------------------------------------------------------------------
(* Properties of validate_transcription *)

(* every token of every normalized external word *)
ExternalTokens(ww) ==
    UNION {{normalize_text(ww[i].word)[j] : j \in 1..Len(normalize_text(ww[i].word))} :
              i \in 1..Len(ww)}

(* how many expected tokens, with multiplicity, occur among the external ones *)
ExpectedFound(ww, t) ==
    Cardinality({i \in 1..Len(normalize_text(t)) :
                    normalize_text(t)[i] \in ExternalTokens(ww)})

(* C5: validate_transcription returns true exactly when the external words *)
(* are non-empty, the expected text has a normalized token, and the        *)
(* fraction of expected tokens found among the external tokens is at       *)
(* least 0.6.                                                              *)
C5_Validation ==
    pc = "done" =>
        (result.valid <=>
            /\ whisper_words # <<>>
            /\ Len(normalize_text(text)) >= 1
            /\ ExpectedFound(whisper_words, text) * SimilarityDen
                   >= SimilarityNum * Len(normalize_text(text)))

C5_Witness ==
    /\ pc = "done"
    /\ result.valid
    /\ Len(normalize_text(text)) = 5
    /\ ExpectedFound(whisper_words, text) = 3

----------------------------------------------------------------------------
(* Properties of adjust_timings_to_duration *)

(* the measured duration M, taken from the input itself *)
Measured(ww) ==
    CHOOSE m \in {ww[i].end_time : i \in 1..Len(ww)} :
        \A i \in 1..Len(ww) : ww[i].end_time <= m

FarFromTarget(ww, D) == Abs(Measured(ww) - D) >= AdjustTolerance

IsScaledBy(r, ww, D) ==
    /\ ~Raised(r)
    /\ Len(r.ev) = Len(ww)
    /\ \A i \in 1..Len(ww) :
          /\ r.ev[i].word = ww[i].word
          /\ r.ev[i].start_time * Measured(ww) = ww[i].start_time * D * r.den
          /\ r.ev[i].end_time * Measured(ww) = ww[i].end_time * D * r.den
    /\ \E i \in 1..Len(ww) : r.ev[i].end_time = D * r.den
    /\ \A i \in 1..Len(ww) : r.ev[i].end_time <= D * r.den

IsUnchanged(r, ww) == ~Raised(r) /\ r.den = 1 /\ r.ev = ww

InOrder(ev) ==
    \A i \in 1..(Len(ev) - 1) :
        /\ ev[i].start_time <= ev[i + 1].start_time
        /\ ev[i].end_time <= ev[i + 1].start_time

AllPositive(ev) == \A i \in 1..Len(ev) : ev[i].start_time < ev[i].end_time

(* C7, as claimed, for input whose events all have end_time > start_time   *)
(* and D > 0: ordered, non-overlapping input stays so after the            *)
(* reconciliation, every event has end_time > start_time, and the last     *)
(* event ends no later than D.                                             *)
C7_WithinDuration ==
    (pc = "done" /\ InOrder(whisper_words) /\ AllPositive(whisper_words)
        /\ duration > 0) =>
        /\ ~Raised(result)
        /\ InOrder(result.ev)
        /\ AllPositive(result.ev)
        /\ result.ev # <<>> => LastEnd(result) <= duration * result.den

(* C7, amended: input that is ordered, non-overlapping and has             *)
(* end_time > start_time in every event, reconciled against D > 0, stays   *)
(* so, and the last event ends before D + 0.5 s.                           *)
C7_WithinTolerance ==
    (pc = "done" /\ InOrder(whisper_words) /\ AllPositive(whisper_words)
        /\ duration > 0) =>
        /\ ~Raised(result)
        /\ InOrder(result.ev)
        /\ AllPositive(result.ev)
        /\ result.ev # <<>> =>
              LastEnd(result) < (duration + AdjustTolerance) * result.den

C7_Witness ==
    /\ pc = "done"
    /\ Len(whisper_words) = 2
    /\ InOrder(whisper_words)
    /\ AllPositive(whisper_words)
    /\ duration > 0
    /\ ~Raised(result)
    /\ LastEnd(result) > duration * result.den

----------------------------------------------------------------------------
(* Properties of create_progressive_text *)

(* no instant lies in two events *)
NonOverlapping(ev) ==
    \A i, j \in 1..Len(ev) :
        i # j => ~(Max(ev[i].start_time, ev[j].start_time)
                      < (IF ev[i].end_time <= ev[j].end_time
                         THEN ev[i].end_time ELSE ev[j].end_time))

Holding(ev, t) == {i \in 1..Len(ev) : ev[i].start_time <= t /\ t < ev[i].end_time}

(* C9: for a non-overlapping sequence and a time t, the lookup returns the *)
(* word of the one event with start_time <= t < end_time, and the empty    *)
(* string when there is none.                                              *)
C9_Lookup ==
    (pc = "done" /\ NonOverlapping(whisper_words)) =>
        IF Holding(whisper_words, current_time) # {}
        THEN /\ Cardinality(Holding(whisper_words, current_time)) = 1
             /\ \A i \in Holding(whisper_words, current_time) :
                   result.shown = whisper_words[i].word
        ELSE result.shown = <<>>

C9_Witness ==
    /\ pc = "done"
    /\ Len(whisper_words) = 2
    /\ NonOverlapping(whisper_words)
    /\ whisper_words[1].start_time < whisper_words[1].end_time
    /\ whisper_words[1].end_time = current_time
    /\ current_time < whisper_words[2].start_time
    /\ whisper_words[1].word # whisper_words[2].word
    /\ result.shown = <<>>

----------------------------------------------------------------------------
(* CacheManager.  The content hash of a text is the text.                  *)

GetCachedImageUnchecked(p) ==
    IF ~settings.ENABLE_CACHE \/ settings.FORCE_REGENERATE_IMAGES
    THEN [path |-> None, images |-> metadata.images]
    ELSE IF p \in metadata.images
         THEN [path |-> cache_image_files[p], images |-> metadata.images]
         ELSE [path |-> None, images |-> metadata.images]

(* get_cached_image: the cached file or None, and the metadata it leaves   *)
get_cached_image(p) ==
    IF ~settings.ENABLE_CACHE \/ settings.FORCE_REGENERATE_IMAGES
    THEN [path |-> None, images |-> metadata.images]
    ELSE IF p \in metadata.images
         THEN IF cache_image_files[p] # None
              THEN [path |-> cache_image_files[p], images |-> metadata.images]
              ELSE [path |-> None, images |-> metadata.images \ {p}]
         ELSE [path |-> None, images |-> metadata.images]

(* cache_image: copy unless a file is there already, then record the entry *)
cache_image(p, file, entries) ==
    IF ~settings.ENABLE_CACHE
    THEN [files |-> cache_image_files, images |-> entries]
    ELSE [files |-> IF cache_image_files[p] = None
                    THEN [cache_image_files EXCEPT ![p] = file]
                    ELSE cache_image_files,
          images |-> entries \cup {p}]

(* get_cached_audio: the cached file or None, and the metadata it leaves   *)
get_cached_audio(t) ==
    IF ~settings.ENABLE_CACHE \/ settings.FORCE_REGENERATE_AUDIO
    THEN [path |-> None, audio |-> metadata.audio]
    ELSE IF t \in metadata.audio
         THEN IF cache_files[t] # None
              THEN [path |-> cache_files[t], audio |-> metadata.audio]
              ELSE [path |-> None, audio |-> metadata.audio \ {t}]
         ELSE [path |-> None, audio |-> metadata.audio]

(* cache_audio: copy unless a file is there already, then record the entry *)
cache_audio(t, file, entries) ==
    IF ~settings.ENABLE_CACHE
    THEN [files |-> cache_files, audio |-> entries]
    ELSE [files |-> IF cache_files[t] = None
                    THEN [cache_files EXCEPT ![t] = file] ELSE cache_files,
          audio |-> entries \cup {t}]

get_cached_whisper_timing(t) ==
    IF ~settings.ENABLE_CACHE THEN None ELSE metadata.whisper[t]

cache_whisper_timing(t, timing_data) ==
    IF ~settings.ENABLE_CACHE
    THEN metadata.whisper
    ELSE [metadata.whisper EXCEPT ![t] = timing_data]

----------------------------------------------------------------------------
(* The providers *)

SpeechOutcomes ==
    {[kind |-> "raised"]} \cup {[kind |-> "audio", dur |-> d] : d \in AudioDurations}

(* the words of a transcription of spoken text t, right or garbled, laid   *)
(* out evenly up to M                                                      *)
Transcript(t, garbled, M) ==
    LET ws == StrSplit(t)
        n == Len(ws)
    IN [i \in 1..n |->
           [word |-> IF garbled THEN <<"b">> ELSE ws[i],
            start_time |-> ((i - 1) * M) \div n,
            end_time |-> (i * M) \div n]]

TranscriptionOutcomes(file) ==
    {[kind |-> "raised"], [kind |-> "no_words"]}
    \cup {[kind |-> "words", words |-> Transcript(file.text, g, M)] :
             g \in BOOLEAN, M \in WhisperMeasured}

(* WhisperService.get_word_timings: the words, or None *)
get_word_timings(outcome) ==
    IF ~settings.ENABLE_WHISPER_TIMING THEN None
    ELSE IF outcome.kind = "words" /\ outcome.words # <<>>
         THEN [words |-> outcome.words]
         ELSE None

----------------------------------------------------------------------------
(* OpenAIService.generate_image into scene index i: what it leaves.  The   *)
(* prompt sent is the description in the wording the character settings    *)
(* and the prompt optimizer give it; an image is the picture of the prompt *)
(* it was generated from                                                   *)

enhanced_prompt(description, wording) == [scene |-> description, wording |-> wording]

ImageOf(p) == [kind |-> "png", prompt |-> p]

(* the wordings generate_image may arrive at *)
Wordings ==
    IF settings.CHARACTER_CONSISTENCY THEN {"optimized", "concatenated"}
    ELSE {"cinematic"}

generate_image(description, i, wording, image) ==
    LET p == enhanced_prompt(description, wording)
        cached == get_cached_image(p)
    IN IF cached.path # None
       THEN [raised |-> FALSE, called |-> FALSE,
             images |-> [image_files EXCEPT ![i] = cached.path],
             files |-> cache_image_files, entries |-> cached.images]
       ELSE IF image.kind = "raised"
            THEN [raised |-> TRUE, called |-> TRUE, images |-> image_files,
                  files |-> cache_image_files, entries |-> cached.images]
            ELSE LET cached_now == cache_image(p, ImageOf(p), cached.images)
                 IN [raised |-> FALSE, called |-> TRUE,
                     images |-> [image_files EXCEPT ![i] = ImageOf(p)],
                     files |-> cached_now.files, entries |-> cached_now.images]

(* OpenAIService.generate_speech into scene index i: what it leaves        *)

generate_speech(t, i, speech) ==
    LET cached == get_cached_audio(t)
    IN IF cached.path # None
       THEN [raised |-> FALSE,
             assets |-> [assets_dir EXCEPT ![i] = cached.path],
             files |-> cache_files, audio |-> cached.audio]
       ELSE IF speech.kind = "raised"
            THEN [raised |-> TRUE, assets |-> assets_dir,
                  files |-> cache_files, audio |-> cached.audio]
            ELSE LET file == [text |-> t, dur |-> speech.dur]
                     cached_now == cache_audio(t, file, cached.audio)
                 IN [raised |-> FALSE,
                     assets |-> [assets_dir EXCEPT ![i] = file],
                     files |-> cached_now.files, audio |-> cached_now.audio]

(* OpenAIService.generate_scene_assets, the timing part: the whisper       *)
(* timing of the scene, the provider call made for it, and the whisper     *)
(* entries of the cache afterwards                                         *)
SceneTiming(t, file, outcome) ==
    LET cached_timing == get_cached_whisper_timing(t)
    IN IF cached_timing # None
       THEN [raised |-> FALSE, whisper_timing |-> cached_timing,
             call |-> NoCall, whisper |-> metadata.whisper]
       ELSE IF ~settings.ENABLE_WHISPER_TIMING
            THEN [raised |-> FALSE, whisper_timing |-> None,
                  call |-> NoCall, whisper |-> metadata.whisper]
            ELSE LET word_timings == get_word_timings(outcome)
                 IN IF word_timings # None
                       /\ validate_transcription(word_timings.words, t)
                    THEN LET actual_duration == file.dur
                             adjusted_timings ==
                                 adjust_timings_to_duration(
                                     [den |-> 1, ev |-> word_timings.words],
                                     actual_duration)
                             whisper_timing ==
                                 [word_timings |-> adjusted_timings,
                                  duration |-> actual_duration,
                                  source |-> "whisper"]
                         IN IF Raised(adjusted_timings)
                            THEN [raised |-> TRUE, whisper_timing |-> None,
                                  call |-> outcome, whisper |-> metadata.whisper]
                            ELSE [raised |-> FALSE, whisper_timing |-> whisper_timing,
                                  call |-> outcome,
                                  whisper |-> cache_whisper_timing(t, whisper_timing)]
                    ELSE [raised |-> FALSE, whisper_timing |-> None,
                          call |-> outcome, whisper |-> metadata.whisper]

(* generate_scene_assets(scene, scene_index, work_dir) *)
GenerateSceneAssets ==
    /\ pc = "idle"
    /\ \E t \in VoiceoverTexts, i \in SceneIndexes, speech \in SpeechOutcomes :
          LET audio_exists == assets_dir[i] # None
              spoken == IF audio_exists
                        THEN [raised |-> FALSE, assets |-> assets_dir,
                              files |-> cache_files, audio |-> metadata.audio]
                        ELSE generate_speech(t, i, speech)
          IN /\ assets_dir' = spoken.assets
             /\ cache_files' = spoken.files
             /\ IF spoken.raised
                THEN /\ scene_assets' = [error |-> "generate_speech"]
                     /\ metadata' = [metadata EXCEPT !.audio = spoken.audio]
                     /\ transcription' = NoCall
                ELSE \E outcome \in TranscriptionOutcomes(spoken.assets[i]) :
                        LET timed == SceneTiming(t, spoken.assets[i], outcome)
                        IN /\ metadata' = [metadata EXCEPT
                                              !.audio = spoken.audio,
                                              !.whisper = timed.whisper]
                           /\ transcription' = timed.call
                           /\ scene_assets' =
                                 IF timed.raised
                                 THEN [error |-> "adjust_timings_to_duration"]
                                 ELSE [image_path |-> i, audio_path |-> i,
                                       voiceover_text |-> t,
                                       whisper_timing |-> timed.whisper_timing]
    /\ pc' = IF Raised(scene_assets') THEN "failed" ELSE "assets"
    /\ clip' = None
    /\ UNCHANGED <<settings, text, duration, whisper_words, current_time, result>>
    /\ UNCHANGED runVars

----------------------------------------------------------------------------
(* VideoComposer.  A clip carries its duration as a numerator over its     *)
(* list's denominator.                                                     *)

(* how TextClip fares for one word: it renders with the preferred font,   *)
(* only with the fallback font, or with none                               *)
FontOutcomes == {"preferred", "fallback", "none"}

(* the outcome for the k-th word event; font maps event positions to       *)
(* outcomes                                                                *)
FontAt(font, k) == IF k \in DOMAIN font THEN font[k] ELSE "preferred"

(* word.strip(): a word of whitespace only is skipped *)
IsBlank(w) == \A k \in 1..Len(w) : IsWhitespace(w[k])

TextClipUntilEnd(e, font) ==
    [word |-> e.word, start |-> e.start_time, duration |-> e.end_time, font |-> font]

(* TextClip(word, ...).set_start(start_time).set_duration(word_duration) *)
TextClipOf(e, font) ==
    [word |-> e.word, start |-> e.start_time,
     duration |-> e.end_time - e.start_time, font |-> font]

(* the except branch: the same word and window with font_fallback *)
FallbackClip(e) == TextClipOf(e, "CAPTION_FONT_FALLBACK")

(* the loop over word_timings: text_clips, or the error of the first word  *)
(* that renders with neither font                                          *)
RECURSIVE TextClipsFrom(_, _, _, _)
TextClipsFrom(ev, font, k, acc) ==
    IF k > Len(ev)
    THEN [raised |-> FALSE, clips |-> acc]
    ELSE IF IsBlank(ev[k].word)
         THEN TextClipsFrom(ev, font, k + 1, acc)
         ELSE IF FontAt(font, k) = "preferred"
              THEN TextClipsFrom(ev, font, k + 1,
                                 Append(acc, TextClipOf(ev[k], "CAPTION_FONT")))
              ELSE IF FontAt(font, k) = "fallback"
                   THEN TextClipsFrom(ev, font, k + 1,
                                      Append(acc, FallbackClip(ev[k])))
                   ELSE [raised |-> TRUE, clips |-> acc]

RECURSIVE LatestEndFrom(_, _, _)
LatestEndFrom(layers, i, m) ==
    IF i > Len(layers) THEN m
    ELSE LatestEndFrom(layers, i + 1, Max(m, layers[i].start + layers[i].duration))

(* the duration CompositeVideoClip gives itself: the latest end of its clips *)
LatestEnd(layers) == LatestEndFrom(layers, 1, 0)

CaptionCompositeAsLaidOut(text_clips, den, D) ==
    [den |-> den, clips |-> text_clips, duration |-> LatestEnd(text_clips)]

(* CompositeVideoClip(text_clips, size).set_duration(duration) *)
CaptionComposite(text_clips, den, D) ==
    [den |-> den, clips |-> text_clips, duration |-> D * den]

create_caption_clip_always(t, D, whisper_timing, enabled, font) ==
    LET word_timings == calculate_word_timings(t, D, whisper_timing)
        rendered == TextClipsFrom(word_timings.ev, font, 1, <<>>)
    IN IF rendered.raised
       THEN [error |-> "TextClip"]
       ELSE IF rendered.clips # <<>>
            THEN CaptionComposite(rendered.clips, word_timings.den, D)
            ELSE None

(* create_caption_clip: None, a raised error, or the caption clip *)
create_caption_clip(t, D, whisper_timing, enabled, font) ==
    IF ~enabled
    THEN None
    ELSE LET word_timings == calculate_word_timings(t, D, whisper_timing)
             rendered == TextClipsFrom(word_timings.ev, font, 1, <<>>)
             text_clips == rendered.clips
         IN IF rendered.raised
            THEN [error |-> "TextClip"]
            ELSE IF text_clips # <<>>
                 THEN CaptionComposite(text_clips, word_timings.den, D)
                 ELSE None

(* whether calculate_word_timings returns the external events *)
UsesWhisperTiming(whisper_timing) ==
    whisper_timing # None /\ whisper_timing.word_timings.ev # <<>>

(* what lies at an image_path: an image, or nothing that ImageClip reads *)
ImageFiles == {ImageOf(enhanced_prompt(<<"d">>, "cinematic"))}

(* create_scene_clip(scene_assets); audio_clip and image are what          *)
(* AudioFileClip and ImageClip read at audio_path and image_path, None for *)
(* a file that is missing or cannot be read; the error of a failed read    *)
(* names the path                                                          *)
create_scene_clip(assets, captions_enabled, enable_movement, font, audio_clip, image) ==
       IF audio_clip = None
       THEN [error |-> "AudioFileClip", path |-> assets.audio_path]
       ELSE IF image = None
       THEN [error |-> "ImageClip", path |-> assets.image_path]
       ELSE LET D == audio_clip.dur
                caption_clip ==
                    create_caption_clip(assets.voiceover_text, D,
                                        assets.whisper_timing, captions_enabled, font)
            IN IF caption_clip = None
               THEN [den |-> 1, duration |-> D, audio |-> audio_clip,
                     image |-> image,
                     movement |-> enable_movement, captions |-> None,
                     external |-> FALSE]
               ELSE IF Raised(caption_clip)
                    THEN caption_clip
                    ELSE [den |-> caption_clip.den,
                          duration |-> Max(D * caption_clip.den, caption_clip.duration),
                          audio |-> audio_clip,
                          image |-> image,
                          movement |-> enable_movement,
                          captions |-> caption_clip,
                          external |-> UsesWhisperTiming(assets.whisper_timing)]

(* the positions of the word events create_caption_clip is given *)
WordEventPositions(assets) ==
    1..Max(Len(StrSplit(assets.voiceover_text)),
           IF assets.whisper_timing = None
           THEN 0 ELSE Len(assets.whisper_timing.word_timings.ev))

CreateSceneClip ==
    /\ pc = "assets"
    /\ \E captions_enabled \in BOOLEAN, enable_movement \in BOOLEAN,
          font \in [WordEventPositions(scene_assets) -> FontOutcomes],
          image \in ImageFiles \cup {None} :
          clip' = create_scene_clip(scene_assets, captions_enabled,
                                    enable_movement, font,
                                    assets_dir[scene_assets.audio_path], image)
    /\ pc' = IF Raised(clip') THEN "failed" ELSE "composed"
    /\ UNCHANGED <<settings, metadata, cache_files, assets_dir, transcription,
                   scene_assets, text, duration, whisper_words, current_time, result>>
    /\ UNCHANGED runVars

(* the end of synth.create_video: the finally clause removes the temp      *)
(* directory (cleanup_temp and no episode_dir) or keeps the work directory *)
EndRun ==
    /\ pc \in {"assets", "composed", "failed"}
    /\ pc' = "idle"
    /\ \E cleanup_temp \in BOOLEAN :
          assets_dir' = IF cleanup_temp
                        THEN [i \in SceneIndexes |-> None] ELSE assets_dir
    /\ scene_assets' = None
    /\ clip' = None
    /\ transcription' = NoCall
    /\ UNCHANGED <<settings, metadata, cache_files,
                   text, duration, whisper_words, current_time, result>>
    /\ UNCHANGED runVars

(* a new process: the settings file as edited, and the command-line flags  *)
(* --regenerate-audio / --regenerate-all                                   *)
StartProcess ==
    /\ pc = "idle"
    /\ settings' \in [ENABLE_CACHE : {settings.ENABLE_CACHE},
                      ENABLE_WHISPER_TIMING : BOOLEAN,
                      FORCE_REGENERATE_AUDIO : BOOLEAN]
    /\ settings' # settings
    /\ UNCHANGED <<metadata, cache_files, assets_dir, transcription, scene_assets,
                   clip, callVars>>
    /\ UNCHANGED runVars

(* CacheManager.clear_cache(cache_type): the metadata and the cache files  *)
(* it leaves                                                               *)
clear_cache(cache_type) ==
    [meta |-> [images |-> IF cache_type \in {"images", "all"}
                          THEN {} ELSE metadata.images,
               audio |-> IF cache_type \in {"audio", "all"}
                         THEN {} ELSE metadata.audio,
               whisper |-> IF cache_type \in {"whisper", "all"}
                           THEN [t \in VoiceoverTexts |-> None]
                           ELSE metadata.whisper],
     image_files |-> IF cache_type \in {"images", "all"}
                     THEN [p \in ImagePrompts |-> None] ELSE cache_image_files,
     audio_files |-> IF cache_type \in {"audio", "all"}
                     THEN [t \in VoiceoverTexts |-> None] ELSE cache_files]

CacheTypes == {"images", "audio", "whisper", "all"}

(* clear_cache between two runs *)
ClearCache ==
    /\ pc = "idle"
    /\ \E cache_type \in CacheTypes :
          /\ metadata' = clear_cache(cache_type).meta
          /\ cache_image_files' = clear_cache(cache_type).image_files
          /\ cache_files' = clear_cache(cache_type).audio_files
    /\ UNCHANGED <<settings, assets_dir, transcription, scene_assets, clip, callVars>>
    /\ UNCHANGED <<script, scene_assets_list, clips, final_video, calls, open_clips,
                   output_file, dirs, image_files, fonts, encode, music_dir,
                   channelVars>>

InitPipeline ==
    /\ pc = "idle"
    /\ text = <<>>
    /\ duration = 0
    /\ whisper_words = <<>>
    /\ current_time = 0
    /\ result = None
    /\ settings \in [ENABLE_CACHE : BOOLEAN, ENABLE_WHISPER_TIMING : {TRUE},
                     FORCE_REGENERATE_AUDIO : {FALSE}]
    /\ metadata = EmptyMetadata
    /\ cache_files = [t \in VoiceoverTexts |-> None]
    /\ assets_dir = [i \in SceneIndexes |-> None]
    /\ transcription = NoCall
    /\ scene_assets = None
    /\ clip = None
    /\ RunAtRest

NextPipeline ==
    \/ StartProcess
    \/ GenerateSceneAssets
    \/ CreateSceneClip
    \/ EndRun
    \/ ClearCache

SpecPipeline == InitPipeline /\ [][NextPipeline]_vars

----------------------------------------------------------------------------
(* Properties of the runs *)

AudioUsed == assets_dir[scene_assets.audio_path]

CaptionsFromWhisper ==
    pc = "composed" /\ clip.captions # None /\ clip.external

(* C4: whenever the captions of a scene are built from external timings,   *)
(* the timings passed validate_transcription against the scene's voiceover *)
(* text and were reconciled against the duration of the audio file used    *)
(* for the clip.                                                           *)
C4_ExternalTimingsReconciled ==
    CaptionsFromWhisper =>
        /\ validate_transcription(scene_assets.whisper_timing.word_timings.ev,
                                  scene_assets.voiceover_text)
        /\ scene_assets.whisper_timing.duration = AudioUsed.dur
        /\ adjust_timings_to_duration(scene_assets.whisper_timing.word_timings,
                                      AudioUsed.dur)
               = scene_assets.whisper_timing.word_timings

(* transcription disabled, the provider call raised, the response had no   *)
(* words, or the words failed the validation                               *)
ExternalTimingUnusable ==
    \/ ~settings.ENABLE_WHISPER_TIMING
    \/ transcription.kind \in {"raised", "no_words"}
    \/ /\ transcription.kind = "words"
       /\ ~validate_transcription(transcription.words, scene_assets.voiceover_text)

(* C8: when the external timing of a scene is unusable,                    *)
(* generate_scene_assets returns whisper_timing = None, the whisper cache  *)
(* holds no entry for the text, and the captions come from the synthesized *)
(* branch.                                                                 *)
C8_FallbackWhenUnusable ==
    (pc \in {"assets", "composed"} /\ ExternalTimingUnusable) =>
        /\ scene_assets.whisper_timing = None
        /\ metadata.whisper[scene_assets.voiceover_text] = None
        /\ (pc = "composed" /\ clip.captions # None) => ~clip.external

(* C10: the clip create_scene_clip returns lasts exactly as long as the    *)
(* scene's audio, with or without captions and camera movement, whatever   *)
(* the word timings.                                                       *)
C10_ClipLastsAsAudio ==
    pc = "composed" => clip.duration = AudioUsed.dur * clip.den

C10_Witness ==
    /\ CaptionsFromWhisper
    /\ clip.movement
    /\ LatestEnd(clip.captions.clips) > AudioUsed.dur * clip.den
    /\ clip.duration = AudioUsed.dur * clip.den

----------------------------------------------------------------------------
(* VideoComposer.create_scene_clip over bounded scene assets *)

MaxCaptionEvents == 2    \* events of an external timing list given to the composer

(* start_time and end_time, in ticks, of the external events; the audio of *)
(* the scene lasts SceneAudioDuration                                      *)
CaptionWindows == {<<0, 3>>, <<2, 6>>, <<4, 4>>, <<6, 12>>}

SceneAudioDuration == 8

(* the words of external events are stripped (whisper_service.py:48), so a *)
(* word without visible characters is the empty word                       *)
CaptionEvents ==
    {[word |-> w, start_time |-> win[1], end_time |-> win[2]] :
        w \in {<<"a">>, <<>>}, win \in CaptionWindows}

CaptionTexts == {<<>>, <<" ">>, <<"a">>, <<"a", " ", "b">>}

SceneClipInputs ==
    {[image_path |-> 0, audio_path |-> 0, voiceover_text |-> t, whisper_timing |-> None] :
        t \in CaptionTexts}
    \cup {[image_path |-> 0, audio_path |-> 0, voiceover_text |-> <<"a">>,
           whisper_timing |-> [word_timings |-> [den |-> 1, ev |-> ev],
                               duration |-> SceneAudioDuration,
                               source |-> "whisper"]] :
             ev \in SeqsUpTo(CaptionEvents, MaxCaptionEvents)}

InitSceneClip ==
    /\ pc = "assets"
    /\ text = <<>>
    /\ duration = 0
    /\ whisper_words = <<>>
    /\ current_time = 0
    /\ result = None
    /\ settings \in [ENABLE_CACHE : {TRUE}, ENABLE_WHISPER_TIMING : {TRUE},
                     FORCE_REGENERATE_AUDIO : {FALSE},
                     ENABLE_CAPTIONS : BOOLEAN, ENABLE_CAMERA_MOVEMENT : BOOLEAN]
    /\ metadata = EmptyMetadata
    /\ cache_files = [t \in VoiceoverTexts |-> None]
    /\ scene_assets \in SceneClipInputs
    /\ assets_dir \in [{0} -> {None, [text |-> scene_assets.voiceover_text,
                                      dur |-> SceneAudioDuration]}]
    /\ transcription = NoCall
    /\ clip = None
    /\ script = <<>>
    /\ scene_assets_list = <<>>
    /\ clips = <<>>
    /\ final_video = None
    /\ calls = <<>>
    /\ open_clips = {}
    /\ output_file = "absent"
    /\ dirs = {}
    /\ image_files \in [{0} -> ImageFiles \cup {None}]
    /\ fonts \in [1..MaxCaptionEvents -> FontOutcomes]
    /\ encode = NoCall
    /\ cache_image_files = [p \in ImagePrompts |-> None]
    /\ music_dir = {}
    /\ channel_dir = None
    /\ available_channels = None

(* VideoComposer().create_scene_clip(scene_assets) *)
CreateSceneClipCall ==
    /\ pc = "assets"
    /\ clip' = create_scene_clip(scene_assets, settings.ENABLE_CAPTIONS,
                                 settings.ENABLE_CAMERA_MOVEMENT, fonts,
                                 assets_dir[scene_assets.audio_path],
                                 image_files[scene_assets.image_path])
    /\ pc' = IF Raised(clip') THEN "failed" ELSE "composed"
    /\ UNCHANGED <<settings, metadata, cache_files, assets_dir, transcription,
                   scene_assets, text, duration, whisper_words, current_time, result>>
    /\ UNCHANGED runVars

NextSceneClip == CreateSceneClipCall

SpecSceneClip == InitSceneClip /\ [][NextSceneClip]_vars

----------------------------------------------------------------------------
(* Properties of create_caption_clip within create_scene_clip *)

(* the word events of the scene: what calculate_word_timings hands over *)
SceneEvents ==
    calculate_word_timings(scene_assets.voiceover_text,
                           assets_dir[scene_assets.audio_path].dur,
                           scene_assets.whisper_timing)

MediaReadable ==
    /\ assets_dir[scene_assets.audio_path] # None
    /\ image_files[scene_assets.image_path] # None

(* the positions of the events whose word is not empty *)
Worded(ev) == {k \in 1..Len(ev) : ev[k].word # <<>>}

(* the text overlays of the composed clip *)
Overlays == IF clip.captions = None THEN <<>> ELSE clip.captions.clips

(* the overlays on screen at time t / den of the scene, as                 *)
(* <<word, start, end>>                                                    *)
OverlaysVisibleAt(t) ==
    {<<Overlays[j].word, Overlays[j].start, Overlays[j].start + Overlays[j].duration>> :
        j \in {i \in 1..Len(Overlays) :
                  /\ Overlays[i].start <= t
                  /\ t < Overlays[i].start + Overlays[i].duration
                  /\ t < clip.captions.duration}}

EventsHolding(ev, t) ==
    {<<ev[k].word, ev[k].start_time, ev[k].end_time>> :
        k \in {i \in Worded(ev) : ev[i].start_time <= t /\ t < ev[i].end_time}}

(* C11: in a scene composed with captions, every word event with a         *)
(* non-empty word has exactly one text overlay, which starts at the        *)
(* event's start_time and lasts end_time - start_time; events with an      *)
(* empty word have none; and at every time t of the scene the overlays on  *)
(* screen are the events with start_time <= t < end_time.                  *)
C11_OverlayPerWord ==
    (pc = "composed" /\ settings.ENABLE_CAPTIONS) =>
        LET ev == SceneEvents.ev
            den == SceneEvents.den
            D == assets_dir[scene_assets.audio_path].dur
        IN /\ Len(Overlays) = Cardinality(Worded(ev))
           /\ \A k \in Worded(ev) :
                 LET j == Cardinality({i \in Worded(ev) : i <= k})
                 IN /\ Overlays[j].word = ev[k].word
                    /\ Overlays[j].start = ev[k].start_time
                    /\ Overlays[j].duration = ev[k].end_time - ev[k].start_time
           /\ \A t \in 0..(D * den - 1) :
                 OverlaysVisibleAt(t) = EventsHolding(ev, t)

C11_Witness ==
    /\ pc = "composed"
    /\ settings.ENABLE_CAPTIONS
    /\ clip.external
    /\ Len(SceneEvents.ev) = 2
    /\ SceneEvents.ev[1].word = <<>>
    /\ SceneEvents.ev[2].word # <<>>
    /\ SceneEvents.ev[2].start_time > 0
    /\ Len(Overlays) = 1
    /\ OverlaysVisibleAt(SceneEvents.ev[2].start_time) # {}
    /\ OverlaysVisibleAt(SceneEvents.ev[2].start_time - 1) = {}

(* C12: when the preferred font fails for a word, the word is rendered     *)
(* with the fallback font in the same time window, and no font failure of  *)
(* any word makes create_caption_clip or create_scene_clip raise.          *)
C12_FontFailureContained ==
    (pc \in {"composed", "failed"} /\ settings.ENABLE_CAPTIONS /\ MediaReadable) =>
        /\ ~Raised(clip)
        /\ \A k \in Worded(SceneEvents.ev) :
              fonts[k] # "preferred" =>
                 LET j == Cardinality({i \in Worded(SceneEvents.ev) : i <= k})
                 IN /\ Overlays[j].font = "CAPTION_FONT_FALLBACK"
                    /\ Overlays[j].start = SceneEvents.ev[k].start_time
                    /\ Overlays[j].duration =
                          SceneEvents.ev[k].end_time - SceneEvents.ev[k].start_time

(* voiceover text without words and no external events *)
ZeroWordEvents ==
    /\ WordCount(scene_assets.voiceover_text) = 0
    /\ ~UsesWhisperTiming(scene_assets.whisper_timing)

(* C13: with captions disabled, or with a scene of zero word events,       *)
(* create_scene_clip of readable media raises nothing and returns the      *)
(* image track, moving or still as configured, with the audio attached and *)
(* no caption layer.                                                       *)
C13_NoCaptionLayer ==
    (pc \in {"composed", "failed"} /\ MediaReadable
        /\ (~settings.ENABLE_CAPTIONS \/ ZeroWordEvents)) =>
        /\ ~Raised(clip)
        /\ clip.captions = None
        /\ clip.image = image_files[scene_assets.image_path]
        /\ clip.movement = settings.ENABLE_CAMERA_MOVEMENT
        /\ clip.audio = assets_dir[scene_assets.audio_path]
        /\ clip.duration = assets_dir[scene_assets.audio_path].dur * clip.den

C13_Witness ==
    /\ pc = "composed"
    /\ settings.ENABLE_CAPTIONS
    /\ settings.ENABLE_CAMERA_MOVEMENT
    /\ ZeroWordEvents
    /\ scene_assets.voiceover_text # <<>>
    /\ \A k \in DOMAIN fonts : fonts[k] = "none"
    /\ clip.captions = None

----------------------------------------------------------------------------
(* synth.create_video over bounded scripts *)

MaxScenes == 2           \* scenes of a script

(* the value of a scene field: a string, or a value that is not a string   *)
(* (a JSON null)                                                           *)
Str(chars) == [str |-> chars]

Null == [null |-> TRUE]

IsStr(v) == "str" \in DOMAIN v

required_fields == <<"sceneDescription", "voiceoverText">>

(* scenes that pass validate_script *)
GoodScenes ==
    {[sceneDescription |-> Str(<<"d">>), voiceoverText |-> Str(<<"a">>)],
     [sceneDescription |-> Str(<<"e">>), voiceoverText |-> Str(<<"a", " ", "b">>)]}

(* scenes with a field missing, empty, of whitespace only, or not a string *)
BadScenes ==
    {[voiceoverText |-> Str(<<"a">>)],
     [sceneDescription |-> Str(<<"d">>)],
     [sceneDescription |-> Null],
     [sceneDescription |-> Str(<<>>), voiceoverText |-> Str(<<"a">>)],
     [sceneDescription |-> Str(<<" ">>), voiceoverText |-> Str(<<"a">>)],
     [sceneDescription |-> Str(<<"d">>), voiceoverText |-> Str(<<>>)],
     [sceneDescription |-> Str(<<"d">>), voiceoverText |-> Str(<<" ", " ">>)],
     [sceneDescription |-> Null, voiceoverText |-> Str(<<"a">>)],
     [sceneDescription |-> Str(<<"d">>), voiceoverText |-> Null]}

Scripts == SeqsUpTo(GoodScenes \cup BadScenes, MaxScenes)

AttributeError == [error |-> "AttributeError"]

(* one iteration of the loop of validate_script: "pass", "False", or the   *)
(* AttributeError of .strip() on a value that is not a string              *)
SceneVerdict(scene) ==
    IF \E f \in 1..Len(required_fields) : required_fields[f] \notin DOMAIN scene
    THEN "False"
    ELSE IF ~IsStr(scene.sceneDescription)
    THEN "AttributeError"
    ELSE IF IsBlank(scene.sceneDescription.str)
    THEN "False"
    ELSE IF ~IsStr(scene.voiceoverText)
    THEN "AttributeError"
    ELSE IF IsBlank(scene.voiceoverText.str)
    THEN "False"
    ELSE "pass"

ValidateFirstSceneOnly(scenes, i) ==
    IF scenes = <<>> \/ SceneVerdict(scenes[1]) = "pass"
    THEN [valid |-> TRUE]
    ELSE IF SceneVerdict(scenes[1]) = "False" THEN [valid |-> FALSE] ELSE AttributeError

RECURSIVE ValidateFrom(_, _)
ValidateFrom(scenes, i) ==
    IF i > Len(scenes)
    THEN [valid |-> TRUE]
    ELSE IF SceneVerdict(scenes[i]) = "False"
         THEN [valid |-> FALSE]
         ELSE IF SceneVerdict(scenes[i]) = "AttributeError"
              THEN AttributeError
              ELSE ValidateFrom(scenes, i + 1)

(* validate_script(script): what it returns, or the error it raises *)
validate_script(scenes) == ValidateFrom(scenes, 1)

(* the tracks that may lie in settings.MUSIC_DIR *)
MusicTracks == {"track.mp3"}

(* which font renders the first and the second word of a scene *)
RunFonts ==
    {<<"preferred", "preferred">>, <<"fallback", "none">>, <<"none", "preferred">>}

InitRun ==
    /\ pc = "start"
    /\ text = <<>>
    /\ duration = 0
    /\ whisper_words = <<>>
    /\ current_time = 0
    /\ result = None
    /\ settings \in [ENABLE_CACHE : {TRUE}, ENABLE_WHISPER_TIMING : {TRUE},
                     FORCE_REGENERATE_AUDIO : {FALSE},
                     FORCE_REGENERATE_IMAGES : {FALSE},
                     CHARACTER_CONSISTENCY : {FALSE},
                     OPENAI_API_KEY : BOOLEAN,
                     ENABLE_CAPTIONS : BOOLEAN, ENABLE_CAMERA_MOVEMENT : {TRUE},
                     ENABLE_BACKGROUND_MUSIC : BOOLEAN]
    /\ metadata = EmptyMetadata
    /\ cache_files = [t \in VoiceoverTexts |-> None]
    /\ assets_dir = [i \in 0..(MaxScenes - 1) |-> None]
    /\ transcription = NoCall
    /\ scene_assets = None
    /\ clip = None
    /\ script \in Scripts
    /\ scene_assets_list = <<>>
    /\ clips = <<>>
    /\ final_video = None
    /\ calls = <<>>
    /\ open_clips = {}
    /\ output_file = "absent"
    /\ dirs = {}
    /\ image_files = [i \in 0..(MaxScenes - 1) |-> None]
    /\ fonts \in RunFonts
    /\ encode = NoCall
    /\ cache_image_files = [p \in ImagePrompts |-> None]
    /\ music_dir \in SUBSET MusicTracks
    /\ channel_dir = None
    /\ available_channels = None

(* whether episode_dir is given: the work directory of a run that finds    *)
(* files of an earlier run is the directory those files lie in             *)
WorkDirChoices ==
    {e \in BOOLEAN : (e => "temp" \notin dirs) /\ (~e => "episode" \notin dirs)}

(* synth.create_video up to the loop over the scenes: settings.validate(), *)
(* validate_script, the directories; episode_dir is given or not           *)
EnterCreateVideo ==
    /\ pc = "start"
    /\ IF ~settings.OPENAI_API_KEY
       THEN /\ result' = [error |-> "ValueError", message |-> "OPENAI_API_KEY not found"]
            /\ pc' = "raised"
            /\ dirs' = dirs
       ELSE IF Raised(validate_script(script))
       THEN /\ result' = validate_script(script)
            /\ pc' = "raised"
            /\ dirs' = dirs
       ELSE IF ~validate_script(script).valid
       THEN /\ result' = [error |-> "ValueError", message |-> "Invalid script format"]
            /\ pc' = "raised"
            /\ dirs' = dirs
       ELSE /\ result' = result
            /\ pc' = "generating"
            /\ \E episode_dir \in WorkDirChoices :
                  dirs' = dirs \cup {"output"}
                              \cup (IF episode_dir THEN {"episode"} ELSE {"temp"})
    /\ UNCHANGED <<text, duration, whisper_words, current_time, settings, metadata,
                   cache_files, assets_dir, transcription, scene_assets, clip,
                   script, scene_assets_list, clips, final_video, calls, open_clips,
                   output_file, image_files, fonts, encode, cache_image_files,
                   music_dir, channelVars>>

(* the finally clause of synth.create_video: cleanup_directory(work_dir)   *)
(* when cleanup_temp is set and the work directory is the temp directory   *)
Finally(cleanup_temp, images_now, assets_now, dirs_now) ==
    IF cleanup_temp /\ "temp" \in dirs_now
    THEN [images |-> [i \in DOMAIN images_now |-> None],
          assets |-> [i \in DOMAIN assets_now |-> None],
          dirs |-> dirs_now \ {"temp", "assets"}]
    ELSE [images |-> images_now, assets |-> assets_now, dirs |-> dirs_now]

(* what the image provider does: it raises, or an image is saved *)
ImageOutcomes == {[kind |-> "raised"], [kind |-> "image"]}

(* what the transcription provider does in the runs: it raises, or it      *)
(* returns the spoken words laid out up to 0 or up to 0.8 s                *)
RunTranscriptionOutcomes(t) ==
    {[kind |-> "raised"]}
    \cup {[kind |-> "words", words |-> Transcript(t, FALSE, M)] : M \in {0, 8}}

(* for i, scene in enumerate(script): the position of the next scene *)
SceneToGenerate == Len(scene_assets_list) + 1

(* generate_scene_assets(scene, i, work_dir): the scene's assets or the    *)
(* error raised, and the files, cache and calls it leaves                  *)
GenerateStep(i, scene, wording, img, speech, outcome) ==
    LET t == scene.voiceoverText.str
        image_exists == image_files[i] # None
        drawn == IF image_exists
                 THEN [raised |-> FALSE, called |-> FALSE, images |-> image_files,
                       files |-> cache_image_files, entries |-> metadata.images]
                 ELSE generate_image(scene.sceneDescription.str, i, wording, img)
        calls1 == Append(calls, [op |-> "generate_scene_assets", scene |-> i])
        calls2 == IF drawn.called
                  THEN Append(calls1, [op |-> "images.generate", scene |-> i])
                  ELSE calls1
        audio_exists == assets_dir[i] # None
        spoken == IF audio_exists
                  THEN [raised |-> FALSE, assets |-> assets_dir,
                        files |-> cache_files, audio |-> metadata.audio]
                  ELSE generate_speech(t, i, speech)
        calls3 == IF audio_exists \/ get_cached_audio(t).path # None
                  THEN calls2
                  ELSE Append(calls2, [op |-> "audio.speech.create", scene |-> i])
        timed == SceneTiming(t, spoken.assets[i], outcome)
        calls4 == IF timed.call = NoCall
                  THEN calls3
                  ELSE Append(calls3, [op |-> "audio.transcriptions.create", scene |-> i])
        meta1 == [metadata EXCEPT !.images = drawn.entries]
        meta2 == [meta1 EXCEPT !.audio = spoken.audio]
        meta3 == [meta2 EXCEPT !.whisper = timed.whisper]
    IN IF drawn.raised
       THEN [error |-> "generate_image", images |-> drawn.images,
             image_cache |-> drawn.files, assets |-> assets_dir,
             files |-> cache_files, meta |-> meta1, calls |-> calls2]
       ELSE IF spoken.raised
       THEN [error |-> "generate_speech", images |-> drawn.images,
             image_cache |-> drawn.files, assets |-> spoken.assets,
             files |-> spoken.files, meta |-> meta2, calls |-> calls3]
       ELSE IF timed.raised
       THEN [error |-> "adjust_timings_to_duration", images |-> drawn.images,
             image_cache |-> drawn.files, assets |-> spoken.assets,
             files |-> spoken.files, meta |-> meta3, calls |-> calls4]
       ELSE [scene_assets |-> [image_path |-> i, audio_path |-> i,
                               voiceover_text |-> t,
                               whisper_timing |-> timed.whisper_timing],
             images |-> drawn.images, image_cache |-> drawn.files,
             assets |-> spoken.assets, files |-> spoken.files,
             meta |-> meta3, calls |-> calls4]

(* one iteration of the loop of synth.create_video over the scenes; an     *)
(* error leaves through the finally clause                                 *)
GenerateAssets ==
    /\ pc = "generating"
    /\ Len(scene_assets_list) < Len(script)
    /\ \E wording \in Wordings, img \in ImageOutcomes, speech \in SpeechOutcomes,
          outcome \in RunTranscriptionOutcomes(script[SceneToGenerate].voiceoverText.str),
          cleanup_temp \in BOOLEAN :
          LET step == GenerateStep(SceneToGenerate - 1, script[SceneToGenerate],
                                   wording, img, speech, outcome)
              dirs1 == dirs \cup {"assets"}
              left == Finally(cleanup_temp, step.images, step.assets, dirs1)
          IN /\ cache_files' = step.files
             /\ cache_image_files' = step.image_cache
             /\ metadata' = step.meta
             /\ calls' = step.calls
             /\ IF Raised(step)
                THEN /\ pc' = "raised"
                     /\ result' = [error |-> step.error]
                     /\ scene_assets_list' = scene_assets_list
                     /\ image_files' = left.images
                     /\ assets_dir' = left.assets
                     /\ dirs' = left.dirs
                ELSE /\ scene_assets_list' = Append(scene_assets_list, step.scene_assets)
                     /\ pc' = IF Len(scene_assets_list) + 1 = Len(script)
                              THEN "composing" ELSE "generating"
                     /\ result' = result
                     /\ image_files' = step.images
                     /\ assets_dir' = step.assets
                     /\ dirs' = dirs1
    /\ UNCHANGED <<text, duration, whisper_words, current_time, settings,
                   transcription, scene_assets, clip, script, clips, final_video,
                   open_clips, output_file, fonts, encode, music_dir, channelVars>>

SceneToComposeReversed == Len(scene_assets_list) - Len(clips)

(* for i, scene_assets in enumerate(scene_assets_list): the position of    *)
(* the next scene                                                          *)
SceneToCompose == Len(clips) + 1

(* one iteration of the loop of VideoComposer.create_video; the files are  *)
(* read as they are, or one of them cannot be read                         *)
ComposeScene ==
    /\ pc = "composing"
    /\ Len(clips) < Len(scene_assets_list)
    /\ \E unreadable \in {"none", "audio", "image"}, cleanup_temp \in BOOLEAN :
          LET assets == scene_assets_list[SceneToCompose]
              audio_clip == IF unreadable = "audio"
                            THEN None ELSE assets_dir[assets.audio_path]
              image == IF unreadable = "image"
                       THEN None ELSE image_files[assets.image_path]
              made == create_scene_clip(assets, settings.ENABLE_CAPTIONS,
                                        settings.ENABLE_CAMERA_MOVEMENT, fonts,
                                        audio_clip, image)
              opened == IF audio_clip = None
                        THEN {}
                        ELSE {[kind |-> "audio", scene |-> assets.audio_path]}
              left == Finally(cleanup_temp, image_files, assets_dir, dirs)
          IN /\ calls' = Append(calls, [op |-> "create_scene_clip",
                                        scene |-> assets.audio_path])
             /\ IF Raised(made)
                THEN /\ pc' = "raised"
                     /\ result' = made
                     /\ clips' = clips
                     /\ open_clips' = open_clips \cup opened
                     /\ image_files' = left.images
                     /\ assets_dir' = left.assets
                     /\ dirs' = left.dirs
                ELSE /\ pc' = "composing"
                     /\ result' = result
                     /\ clips' = Append(clips, made)
                     /\ open_clips' =
                           open_clips \cup opened
                               \cup {[kind |-> "scene", scene |-> assets.audio_path]}
                     /\ UNCHANGED <<image_files, assets_dir, dirs>>
    /\ UNCHANGED <<text, duration, whisper_words, current_time, settings, metadata,
                   cache_files, transcription, scene_assets, clip, script,
                   scene_assets_list, final_video, output_file, fonts, encode,
                   cache_image_files, music_dir, channelVars>>

RECURSIVE DenProduct(_, _)
DenProduct(cs, k) == IF k > Len(cs) THEN 1 ELSE cs[k].den * DenProduct(cs, k + 1)

(* the durations of the first k clips, added up over the denominator den *)
RECURSIVE DurationOfFirst(_, _, _)
DurationOfFirst(cs, den, k) ==
    IF k = 0 THEN 0
    ELSE DurationOfFirst(cs, den, k - 1) + cs[k].duration * (den \div cs[k].den)

ConcatenateStacked(cs) ==
    [den |-> DenProduct(cs, 1),
     starts |-> [k \in 1..Len(cs) |-> 0],
     clips |-> cs,
     duration |-> DurationOfFirst(cs, DenProduct(cs, 1), 1)]

(* concatenate_videoclips(clips, method="compose"): every clip starts at   *)
(* the sum of the durations of the clips before it, and the result lasts   *)
(* the sum of all of them                                                  *)
Concatenate(cs) ==
    [den |-> DenProduct(cs, 1),
     starts |-> [k \in 1..Len(cs) |-> DurationOfFirst(cs, DenProduct(cs, 1), k - 1)],
     clips |-> cs,
     duration |-> DurationOfFirst(cs, DenProduct(cs, 1), Len(cs))]

(* what write_videofile does: it writes the file, or it fails while the    *)
(* frames of one scene are encoded, with or without a file begun at        *)
(* output_path                                                             *)
WriteOutcomes(n) ==
    {[kind |-> "ok"]}
    \cup {[kind |-> "failed", scene |-> i, partial |-> p] :
             i \in 0..(n - 1), p \in BOOLEAN}

(* VideoComposer.create_video after its loop (concatenation, writing,      *)
(* closing), the rest of synth.create_video, and the finally clause        *)
WriteVideo ==
    /\ pc = "composing"
    /\ Len(clips) = Len(scene_assets_list)
    /\ \E cleanup_temp \in BOOLEAN :
          LET left == Finally(cleanup_temp, image_files, assets_dir, dirs)
          IN /\ image_files' = left.images
             /\ assets_dir' = left.assets
             /\ dirs' = left.dirs
    /\ IF Len(clips) = 0
       THEN /\ pc' = "raised"
            /\ result' = [error |-> "concatenate_videoclips"]
            /\ calls' = Append(calls, [op |-> "concatenate_videoclips"])
            /\ UNCHANGED <<final_video, open_clips, output_file, encode>>
       ELSE /\ final_video' = IF Len(clips) = 1 THEN clips[1] ELSE Concatenate(clips)
            /\ calls' = (IF Len(clips) = 1
                         THEN calls
                         ELSE Append(calls, [op |-> "concatenate_videoclips"]))
                        \o <<[op |-> "write_videofile"]>>
            /\ \E written \in WriteOutcomes(Len(clips)) :
                  /\ encode' = written
                  /\ IF written.kind = "ok"
                     THEN /\ output_file' = "complete"
                          /\ open_clips' = {}
                          /\ result' = [path |-> "output_path"]
                          /\ pc' = "returned"
                     ELSE /\ output_file' = IF written.partial
                                            THEN "partial" ELSE output_file
                          /\ open_clips' =
                                open_clips \cup (IF Len(clips) = 1
                                                 THEN {} ELSE {[kind |-> "final"]})
                          /\ result' = [error |-> "write_videofile"]
                          /\ pc' = "raised"
    /\ UNCHANGED <<text, duration, whisper_words, current_time, settings, metadata,
                   cache_files, transcription, scene_assets, clip, script,
                   scene_assets_list, clips, fonts, cache_image_files, music_dir,
                   channelVars>>

NextRun ==
    \/ EnterCreateVideo
    \/ GenerateAssets
    \/ ComposeScene
    \/ WriteVideo

SpecRun == InitRun /\ [][NextRun]_vars

----------------------------------------------------------------------------
(* Properties of the runs of synth.create_video *)

(* the audio durations, in ticks, of the first k scene clips, added up *)
RECURSIVE AudioOfFirst(_, _)
AudioOfFirst(cs, k) ==
    IF k = 0 THEN 0 ELSE AudioOfFirst(cs, k - 1) + cs[k].audio.dur

(* where the scene clips start in the final video, and the denominator of  *)
(* its times; a single clip is the final video itself                      *)
FinalStarts == IF "starts" \in DOMAIN final_video THEN final_video.starts ELSE <<0>>

FinalParts == IF "starts" \in DOMAIN final_video THEN final_video.clips ELSE <<final_video>>

(* C14: for n >= 1 scenes the final video holds the scene clips in script  *)
(* order, scene i + 1 starting exactly at the sum of the durations of      *)
(* scenes 0..i, and lasts the sum of the scenes' audio durations.          *)
C14_ScenesBackToBack ==
    final_video # None =>
        /\ Len(FinalParts) = Len(script)
        /\ \A k \in 1..Len(FinalParts) :
              /\ FinalParts[k] = clips[k]
              /\ clips[k].audio.text = script[k].voiceoverText.str
              /\ clips[k].audio = assets_dir[k - 1] \/ assets_dir[k - 1] = None
              /\ FinalStarts[k] = AudioOfFirst(clips, k - 1) * final_video.den
              /\ k > 1 =>
                    (FinalStarts[k] - FinalStarts[k - 1]) * clips[k - 1].den
                        = clips[k - 1].duration * final_video.den
        /\ final_video.duration = AudioOfFirst(clips, Len(clips)) * final_video.den

C14_Witness ==
    /\ pc = "returned"
    /\ Len(script) = 2
    /\ clips[1].audio.dur # clips[2].audio.dur
    /\ clips[1].den # clips[2].den
    /\ FinalStarts[2] = clips[1].audio.dur * final_video.den
    /\ final_video.duration = (clips[1].audio.dur + clips[2].audio.dur) * final_video.den

Finished == pc \in {"returned", "raised"}

(* C15: every media resource opened during VideoComposer.create_video (the *)
(* audio clip and the scene clip of every scene, the concatenated clip) is *)
(* closed when create_video has returned or raised.                        *)
C15_AllClosed ==
    Finished => open_clips = {}

(* C16: when create_video raises, no video file, complete or partial, lies *)
(* at the output path that was not there before the run.                   *)
C16_NoPartialOutput ==
    pc = "raised" => output_file = "absent"

(* a scene that lacks a required field or has one that is empty or of      *)
(* whitespace only                                                         *)
LacksOrBlank(scene) ==
    \/ "sceneDescription" \notin DOMAIN scene
    \/ "voiceoverText" \notin DOMAIN scene
    \/ \E f \in DOMAIN scene :
          IsStr(scene[f]) /\ \A k \in 1..Len(scene[f].str) : scene[f].str[k] = " "

(* C17: validate_script returns False exactly when some scene lacks        *)
(* sceneDescription or voiceoverText or has one of them empty or of        *)
(* whitespace only, and True otherwise; and create_video raises ValueError *)
(* whenever it returns False.                                              *)
C17_ValidationVerdict ==
    (pc # "start" /\ settings.OPENAI_API_KEY) =>
        IF \E k \in 1..Len(script) : LacksOrBlank(script[k])
        THEN /\ validate_script(script) = [valid |-> FALSE]
             /\ pc = "raised"
             /\ result.error = "ValueError"
        ELSE validate_script(script) = [valid |-> TRUE]

(* a scene that validate_script does not let pass *)
Malformed(scene) ==
    \/ LacksOrBlank(scene)
    \/ \E f \in DOMAIN scene : ~IsStr(scene[f])

(* C18: when the validation of the script fails, create_video raises       *)
(* before any generation work: no directory was created, no provider was   *)
(* called, no cache entry was written, and the files and the cache are as  *)
(* before the call.                                                        *)
C18_NothingTouched ==
    (pc # "start" /\ \E k \in 1..Len(script) : Malformed(script[k])) =>
        /\ pc = "raised"
        /\ Raised(result)
        /\ dirs = {}
        /\ calls = <<>>
        /\ metadata = EmptyMetadata
        /\ \A t \in DOMAIN cache_files : cache_files[t] = None
        /\ \A i \in DOMAIN assets_dir : assets_dir[i] = None
        /\ \A i \in DOMAIN image_files : image_files[i] = None
        /\ output_file = "absent"
        /\ scene_assets_list = <<>>
        /\ clips = <<>>
        /\ open_clips = {}

C18_Witness ==
    /\ pc = "raised"
    /\ settings.OPENAI_API_KEY
    /\ Len(script) = 2
    /\ ~Malformed(script[1])
    /\ Malformed(script[2])
    /\ result.error = "ValueError"
    /\ result.message = "Invalid script format"
    /\ dirs = {}

(* the positions in calls of the calls of one operation *)
CallsOf(op) == {p \in 1..Len(calls) : calls[p].op = op}

(* how many calls of the operation come before position p *)
Before(op, p) == Cardinality({q \in CallsOf(op) : q < p})

ProviderCalls ==
    CallsOf("images.generate") \cup CallsOf("audio.speech.create")
        \cup CallsOf("audio.transcriptions.create")

(* C19: in every run the assets of the scenes are generated in script      *)
(* order, the scene clips are composed in script order, every scene's      *)
(* assets are generated before any scene clip is composed, and all scene   *)
(* clips exist before the concatenation and the writing begin.             *)
C19_ScriptOrder ==
    /\ \A p \in CallsOf("generate_scene_assets") :
          calls[p].scene = Before("generate_scene_assets", p)
    /\ \A p \in ProviderCalls :
          calls[p].scene = Before("generate_scene_assets", p) - 1
    /\ \A p \in CallsOf("create_scene_clip") :
          /\ calls[p].scene = Before("create_scene_clip", p)
          /\ Before("generate_scene_assets", p) = Len(script)
          /\ Before("create_scene_clip", p) = Len(clips)
                \/ clips[Before("create_scene_clip", p) + 1].audio.text
                       = script[Before("create_scene_clip", p) + 1].voiceoverText.str
    /\ \A p \in CallsOf("concatenate_videoclips") \cup CallsOf("write_videofile") :
          /\ Before("create_scene_clip", p) = Len(script)
          /\ Len(clips) = Len(script)
    /\ \A k \in 1..Len(scene_assets_list) :
          /\ scene_assets_list[k].voiceover_text = script[k].voiceoverText.str
          /\ scene_assets_list[k].audio_path = k - 1
    /\ \A k \in 1..Len(clips) :
          clips[k].audio.text = script[k].voiceoverText.str

C19_Witness ==
    /\ pc = "returned"
    /\ Len(script) = 2
    /\ script[1] # script[2]
    /\ Cardinality(CallsOf("create_scene_clip")) = 2
    /\ Cardinality(ProviderCalls) = 6
    /\ calls[Len(calls)].op = "write_videofile"

(* a failed read of a scene's audio or image while the scene is composed *)
ReadFailedInScene(i) ==
    /\ result.error \in {"AudioFileClip", "ImageClip"}
    /\ i = Len(clips)

(* write_videofile failed while the frames of the scene were encoded *)
EncodeFailedInScene(i) ==
    /\ result.error = "write_videofile"
    /\ encode.kind = "failed"
    /\ encode.scene = i

(* C20: when composing or encoding fails because of a media read or write  *)
(* failure in scene i, the failure that reaches the caller of create_video *)
(* identifies scene i.                                                     *)
C20_FailureNamesScene ==
    \A i \in 0..(Len(script) - 1) :
        (pc = "raised" /\ (ReadFailedInScene(i) \/ EncodeFailedInScene(i))) =>
            \/ "path" \in DOMAIN result /\ result.path = i
            \/ "scene" \in DOMAIN result /\ result.scene = i

----------------------------------------------------------------------------
(* Properties of the timing resolution at the edges *)

(* C21: with an audio duration of 0 or a text of zero words,               *)
(* calculate_word_timings raises nothing and returns the empty sequence of *)
(* word events.                                                            *)
C21_EmptyTrack ==
    (pc = "done" /\ (duration = 0 \/ WordCount(text) = 0)) =>
        /\ ~Raised(result)
        /\ result.ev = <<>>

(* what the first application returned, or the error it raised *)
FirstAdjusted == adjust_timings_to_duration([den |-> 1, ev |-> whisper_words], duration)

----------------------------------------------------------------------------
(* VideoComposer.apply_camera_movement over bounded settings.  Intensities *)
(* are in hundredths, a scale or an offset is a fraction [num, den].       *)

(* settings.ZOOM_INTENSITY ("0.0 to 0.3"), settings.PAN_INTENSITY ("0.0 to *)
(* 0.1") and settings.VIDEO_WIDTH as they may be configured                *)
ZoomIntensities == {0, 10, 30}

PanIntensities == {0, 1, 5, 10}

VideoWidths == {100, 720, 1080}

(* the durations, in ticks, of the scene audio the movement is spread over *)
MovementDurations == {0, 1, 4, 8}

movement_types == {"zoom_in", "zoom_out", "pan_left", "pan_right", "zoom_in_pan"}

(* the ImageClip that create_scene_clip hands over *)
TheImageClip == [kind |-> "image"]

(* zoom_factor = 1 + self.zoom_intensity, in hundredths *)
zoom_factor == 100 + settings.ZOOM_INTENSITY

(* pan_pixels = int(self.width * self.pan_intensity) *)
pan_pixels == (settings.VIDEO_WIDTH * settings.PAN_INTENSITY) \div 100

(* current_zoom = 1 + (zoom_factor - 1) * progress, progress = t / d *)
zoom_in_scale(t, d) ==
    [num |-> 100 * d + (zoom_factor - 100) * t, den |-> 100 * d]

ZoomOutGrowing(t, d) ==
    [num |-> 100 * d + (zoom_factor - 100) * t, den |-> 100 * d]

(* current_zoom = zoom_factor - (zoom_factor - 1) * progress *)
zoom_out_scale(t, d) ==
    [num |-> zoom_factor * d - (zoom_factor - 100) * t, den |-> 100 * d]

(* expanded_clip.crop(x1 = x_offset, x2 = x_offset + self.width) of a      *)
(* canvas resized to width + extra pixels                                  *)
CropOf(x_offset, extra) ==
    [x1 |-> x_offset, width |-> settings.VIDEO_WIDTH,
     canvas |-> settings.VIDEO_WIDTH + extra]

(* make_frame(t) of a movement over duration d > 0: the scale of the       *)
(* resize and the crop window, None where the branch has none              *)
make_frame(movement, t, d) ==
    IF movement = "zoom_in"
    THEN [zoom |-> zoom_in_scale(t, d), crop |-> None]
    ELSE IF movement = "zoom_out"
    THEN [zoom |-> zoom_out_scale(t, d), crop |-> None]
    ELSE IF movement = "pan_left"
    THEN [zoom |-> None,
          crop |-> CropOf([num |-> pan_pixels * t, den |-> d], pan_pixels)]
    ELSE IF movement = "pan_right"
    THEN [zoom |-> None,
          crop |-> CropOf([num |-> pan_pixels * (d - t), den |-> d], pan_pixels)]
    ELSE LET x_offset == [num |-> 3 * pan_pixels * t, den |-> 10 * d]
         IN [zoom |-> zoom_in_scale(t, d),
             crop |-> IF x_offset.num > 0
                      THEN CropOf(x_offset, (3 * pan_pixels) \div 10)
                      ELSE None]

InitCamera ==
    /\ pc = "input"
    /\ text = <<>>
    /\ duration \in MovementDurations
    /\ whisper_words = <<>>
    /\ current_time = 0
    /\ result = None
    /\ settings \in [ENABLE_CAMERA_MOVEMENT : BOOLEAN,
                     ZOOM_INTENSITY : ZoomIntensities,
                     PAN_INTENSITY : PanIntensities,
                     VIDEO_WIDTH : VideoWidths]
    /\ metadata = EmptyMetadata
    /\ cache_files = [t \in VoiceoverTexts |-> None]
    /\ assets_dir = [i \in SceneIndexes |-> None]
    /\ transcription = NoCall
    /\ scene_assets = None
    /\ clip = TheImageClip
    /\ RunAtRest

(* apply_camera_movement(image_clip, duration): the image clip itself, or  *)
(* a VideoClip over make_frame with a movement drawn by random.choice; the *)
(* VideoClip evaluates make_frame(0) when it is built, which divides by    *)
(* the duration                                                            *)
ApplyCameraMovement ==
    /\ pc = "input"
    /\ IF ~settings.ENABLE_CAMERA_MOVEMENT
       THEN /\ pc' = "still"
            /\ clip' = clip
            /\ result' = result
       ELSE \E movement \in movement_types :
               IF duration = 0
               THEN /\ pc' = "failed"
                    /\ clip' = clip
                    /\ result' = ZeroDivisionError
               ELSE /\ pc' = "moving"
                    /\ clip' = [kind |-> "animated", movement |-> movement,
                                duration |-> duration]
                    /\ result' = make_frame(movement, 0, duration)
    /\ UNCHANGED <<text, duration, whisper_words, current_time, settings, metadata,
                   cache_files, assets_dir, transcription, scene_assets>>
    /\ UNCHANGED runVars

(* animated_clip.get_frame(t) for a time of the clip *)
MakeFrame ==
    /\ pc \in {"moving", "frame"}
    /\ \E t \in 0..clip.duration :
          /\ current_time' = t
          /\ result' = make_frame(clip.movement, t, clip.duration)
    /\ pc' = "frame"
    /\ UNCHANGED <<text, duration, whisper_words, settings, metadata,
                   cache_files, assets_dir, transcription, scene_assets, clip>>
    /\ UNCHANGED runVars

NextCamera ==
    \/ ApplyCameraMovement
    \/ MakeFrame

SpecCamera == InitCamera /\ [][NextCamera]_vars

----------------------------------------------------------------------------
(* Properties of the camera movement *)

Framed(movement) ==
    pc \in {"moving", "frame"} /\ clip.movement = movement

(* C23: over a duration d > 0 the scale of ZoomIn at t is                  *)
(* 1 + zoom_intensity * t / d, that of ZoomOut is                          *)
(* 1 + zoom_intensity * (1 - t / d), which is the ZoomIn scale at d - t;   *)
(* both stay within [1, 1 + zoom_intensity], ZoomIn starts at 1 and ends   *)
(* at 1 + zoom_intensity; and with camera movement disabled the image clip *)
(* is returned unchanged.                                                  *)
C23_LinearZoom ==
    LET t == current_time
        d == duration
        zi == settings.ZOOM_INTENSITY
    IN /\ Framed("zoom_in") =>
             /\ result.zoom.num * 100 * d = result.zoom.den * (100 * d + zi * t)
             /\ t = 0 => result.zoom.num = result.zoom.den
             /\ t = d => result.zoom.num * 100 = result.zoom.den * (100 + zi)
       /\ Framed("zoom_out") =>
             /\ result.zoom.num * 100 * d
                   = result.zoom.den * (100 * d + zi * (d - t))
             /\ result.zoom.num * zoom_in_scale(d - t, d).den
                   = zoom_in_scale(d - t, d).num * result.zoom.den
       /\ (Framed("zoom_in") \/ Framed("zoom_out")) =>
             /\ result.zoom.den <= result.zoom.num
             /\ result.zoom.num * 100 <= result.zoom.den * (100 + zi)
       /\ (pc # "input" /\ ~settings.ENABLE_CAMERA_MOVEMENT) =>
             pc = "still" /\ clip = TheImageClip

C23_Witness ==
    /\ pc = "frame"
    /\ clip.movement = "zoom_out"
    /\ settings.ZOOM_INTENSITY > 0
    /\ 0 < current_time
    /\ current_time < duration
    /\ 2 * current_time # duration
    /\ result.zoom.den < result.zoom.num
    /\ result.zoom.num * 100 < result.zoom.den * (100 + settings.ZOOM_INTENSITY)

(* C27: for every pan-type movement and every t in [0, d] the crop window  *)
(* [x_offset, x_offset + width] lies inside the expanded canvas it is cut  *)
(* from.                                                                   *)
C27_CropInsideCanvas ==
    (pc \in {"moving", "frame"}
        /\ clip.movement \in {"pan_left", "pan_right", "zoom_in_pan"}
        /\ result.crop # None) =>
        /\ 0 <= result.crop.x1.num
        /\ result.crop.x1.num + result.crop.width * result.crop.x1.den
              <= result.crop.canvas * result.crop.x1.den

----------------------------------------------------------------------------
(* AudioManager: the background music.  Volumes are in hundredths.         *)

MUSIC_VOLUME == 15
VOICEOVER_VOLUME == 100

(* clip.volumex(factor) *)
volumex(audio_clip, factor) == [clip |-> audio_clip, volume |-> factor]

(* select_background_track(): None, or the track random.choice draws *)
select_background_track(drawn) ==
    IF ~settings.ENABLE_BACKGROUND_MUSIC \/ music_dir = {} THEN None ELSE drawn

(* create_background_music_clip(music_path, duration): the track trimmed   *)
(* or looped to the duration at the music volume, None when the file       *)
(* cannot be read                                                          *)
create_background_music_clip(music_path, length, readable) ==
    IF readable
    THEN volumex([track |-> music_path, dur |-> length], MUSIC_VOLUME)
    ELSE None

(* mix_audio(voiceover_clip, music_path): the voiceover alone, or the      *)
(* composite of the voiceover and the music clip of the same duration      *)
mix_audio(voiceover_clip, music_path, readable) ==
    IF ~settings.ENABLE_BACKGROUND_MUSIC \/ music_path = None
    THEN volumex(voiceover_clip, VOICEOVER_VOLUME)
    ELSE LET music_clip == create_background_music_clip(music_path,
                                                         voiceover_clip.dur, readable)
         IN IF music_clip = None
            THEN volumex(voiceover_clip, VOICEOVER_VOLUME)
            ELSE [layers |-> <<volumex(voiceover_clip, VOICEOVER_VOLUME), music_clip>>]

(* the voiceover files a scene of the script may have been given *)
VoiceoversOf(scene) ==
    {[text |-> scene.voiceoverText.str, dur |-> d] : d \in AudioDurations}

(* the audio holds a music layer as long as the voiceover, mixed by        *)
(* mix_audio with a track of the music directory                           *)
MusicMixed(audio, scene) ==
    \E track \in music_dir, v \in VoiceoversOf(scene) :
       audio = mix_audio(v, [path |-> track], TRUE)

(* C24: when background music is enabled and at least one track is         *)
(* available, the audio of every scene of the rendered video is the        *)
(* voiceover mixed with background music over the scene's whole duration;  *)
(* otherwise it is the voiceover only                                      *)
C24_MusicUnderVoiceover ==
    pc = "returned" =>
       \A k \in 1..Len(clips) :
          IF settings.ENABLE_BACKGROUND_MUSIC /\ music_dir # {}
          THEN MusicMixed(clips[k].audio, script[k])
          ELSE clips[k].audio \in VoiceoversOf(script[k])

(* without music enabled or without a track, the audio is the voiceover *)
VoiceoverOnlyWithoutMusic ==
    (pc = "returned" /\ ~(settings.ENABLE_BACKGROUND_MUSIC /\ music_dir # {})) =>
       \A k \in 1..Len(clips) : clips[k].audio \in VoiceoversOf(script[k])

(* the audio is the voiceover alone whatever the music settings *)
VoiceoverOnlyAlways ==
    pc = "returned" =>
       \A k \in 1..Len(clips) : clips[k].audio \in VoiceoversOf(script[k])

----------------------------------------------------------------------------
(* The CacheManager called directly: cache_image, cache_audio,             *)
(* get_cached_image, get_cached_audio and clear_cache in any order, cached *)
(* files deleted from outside, and new processes with other settings over  *)
(* the same cache directory.  pc names the last operation.                 *)

(* the contents the image cache is asked for *)
CachePrompts == {p \in ImagePrompts : p.wording = "cinematic"}

CacheSettings ==
    [ENABLE_CACHE : BOOLEAN, FORCE_REGENERATE_IMAGES : BOOLEAN,
     FORCE_REGENERATE_AUDIO : BOOLEAN]

CacheOperations ==
    {"__init__", "cache_image", "cache_audio", "get_cached_image",
     "get_cached_audio", "clear_cache", "deleted"}

InitCache ==
    /\ pc = "__init__"
    /\ text = <<>>
    /\ duration = 0
    /\ whisper_words = <<>>
    /\ current_time = 0
    /\ result = None
    /\ settings \in CacheSettings
    /\ metadata = EmptyMetadata
    /\ cache_files = [t \in VoiceoverTexts |-> None]
    /\ assets_dir = [i \in SceneIndexes |-> None]
    /\ transcription = NoCall
    /\ scene_assets = None
    /\ clip = None
    /\ RunAtRest

cacheUnchanged ==
    <<text, duration, whisper_words, current_time, assets_dir, transcription,
      scene_assets, clip, script, scene_assets_list, clips, final_video, calls,
      open_clips, output_file, dirs, image_files, fonts, encode, music_dir,
      channelVars>>

(* CacheManager() of a new process: the metadata is read back as saved *)
NewCacheManager ==
    /\ pc \in CacheOperations
    /\ pc' = "__init__"
    /\ settings' \in CacheSettings
    /\ result' = None
    /\ UNCHANGED <<metadata, cache_files, cache_image_files>>
    /\ UNCHANGED cacheUnchanged

(* cache_image(scene_description, image_path) *)
CacheImage ==
    /\ pc \in CacheOperations
    /\ pc' = "cache_image"
    /\ \E p \in CachePrompts :
          LET cached == cache_image(p, ImageOf(p), metadata.images)
          IN /\ cache_image_files' = cached.files
             /\ metadata' = [metadata EXCEPT !.images = cached.images]
             /\ result' = [content |-> p,
                           path |-> IF settings.ENABLE_CACHE
                                    THEN cached.files[p] ELSE ImageOf(p)]
    /\ UNCHANGED <<settings, cache_files>>
    /\ UNCHANGED cacheUnchanged

(* cache_audio(text, audio_path) *)
CacheAudio ==
    /\ pc \in CacheOperations
    /\ pc' = "cache_audio"
    /\ \E t \in VoiceoverTexts, d \in AudioDurations :
          LET file == [text |-> t, dur |-> d]
              cached == cache_audio(t, file, metadata.audio)
          IN /\ cache_files' = cached.files
             /\ metadata' = [metadata EXCEPT !.audio = cached.audio]
             /\ result' = [content |-> t,
                           path |-> IF settings.ENABLE_CACHE
                                    THEN cached.files[t] ELSE file]
    /\ UNCHANGED <<settings, cache_image_files>>
    /\ UNCHANGED cacheUnchanged

(* get_cached_image(scene_description) *)
GetCachedImage ==
    /\ pc \in CacheOperations
    /\ pc' = "get_cached_image"
    /\ \E p \in CachePrompts :
          /\ metadata' = [metadata EXCEPT !.images = get_cached_image(p).images]
          /\ result' = [content |-> p, path |-> get_cached_image(p).path]
    /\ UNCHANGED <<settings, cache_files, cache_image_files>>
    /\ UNCHANGED cacheUnchanged

(* get_cached_audio(text) *)
GetCachedAudio ==
    /\ pc \in CacheOperations
    /\ pc' = "get_cached_audio"
    /\ \E t \in VoiceoverTexts :
          /\ metadata' = [metadata EXCEPT !.audio = get_cached_audio(t).audio]
          /\ result' = [content |-> t, path |-> get_cached_audio(t).path]
    /\ UNCHANGED <<settings, cache_files, cache_image_files>>
    /\ UNCHANGED cacheUnchanged

(* clear_cache(cache_type) *)
CallClearCache ==
    /\ pc \in CacheOperations
    /\ pc' = "clear_cache"
    /\ \E cache_type \in CacheTypes :
          /\ metadata' = clear_cache(cache_type).meta
          /\ cache_image_files' = clear_cache(cache_type).image_files
          /\ cache_files' = clear_cache(cache_type).audio_files
    /\ result' = None
    /\ UNCHANGED settings
    /\ UNCHANGED cacheUnchanged

(* a cached file is deleted from outside the program *)
DeleteCachedFile ==
    /\ pc \in CacheOperations
    /\ pc' = "deleted"
    /\ \/ \E p \in CachePrompts :
             /\ cache_image_files[p] # None
             /\ cache_image_files' = [cache_image_files EXCEPT ![p] = None]
             /\ cache_files' = cache_files
       \/ \E t \in VoiceoverTexts :
             /\ cache_files[t] # None
             /\ cache_files' = [cache_files EXCEPT ![t] = None]
             /\ cache_image_files' = cache_image_files
    /\ result' = None
    /\ UNCHANGED <<settings, metadata>>
    /\ UNCHANGED cacheUnchanged

NextCache ==
    \/ NewCacheManager
    \/ CacheImage
    \/ CacheAudio
    \/ GetCachedImage
    \/ GetCachedAudio
    \/ CallClearCache
    \/ DeleteCachedFile

SpecCache == InitCache /\ [][NextCache]_vars

(* Properties of the cache lookups *)

(* a path is returned only with the cache enabled, the force flag off, an  *)
(* entry for the content and the file present when the call was made       *)
PathOnlyIfValid ==
    /\ pc' = "get_cached_image" /\ result'.path # None =>
          /\ settings.ENABLE_CACHE /\ ~settings.FORCE_REGENERATE_IMAGES
          /\ result'.content \in metadata.images
          /\ cache_image_files[result'.content] # None
          /\ result'.path = cache_image_files[result'.content]
    /\ pc' = "get_cached_audio" /\ result'.path # None =>
          /\ settings.ENABLE_CACHE /\ ~settings.FORCE_REGENERATE_AUDIO
          /\ result'.content \in metadata.audio
          /\ cache_files[result'.content] # None
          /\ result'.path = cache_files[result'.content]

(* the lookup of an entry whose file is missing *)
StaleImageLookup ==
    /\ pc' = "get_cached_image"
    /\ result'.content \in metadata.images
    /\ cache_image_files[result'.content] = None

StaleAudioLookup ==
    /\ pc' = "get_cached_audio"
    /\ result'.content \in metadata.audio
    /\ cache_files[result'.content] = None

(* C30, as claimed: after any sequence of cache operations and deletions a *)
(* lookup returns a path only if the cache is enabled, the force flag is   *)
(* off, the entry exists and the file exists; when the entry exists but    *)
(* the file is missing, the entry is removed and None is returned          *)
C30_LookupEveryStale ==
    [][/\ PathOnlyIfValid
       /\ StaleImageLookup =>
             result'.path = None /\ result'.content \notin metadata'.images
       /\ StaleAudioLookup =>
             result'.path = None /\ result'.content \notin metadata'.audio]_vars

(* C30, amended: the entry of a missing file is removed when the lookup is *)
(* made with the cache enabled and the force flag off; a disabled cache or *)
(* a set force flag returns None and leaves the entry                      *)
C30_Lookup ==
    [][/\ PathOnlyIfValid
       /\ StaleImageLookup =>
             /\ result'.path = None
             /\ result'.content \notin metadata'.images
                   <=> (settings.ENABLE_CACHE /\ ~settings.FORCE_REGENERATE_IMAGES)
       /\ StaleAudioLookup =>
             /\ result'.path = None
             /\ result'.content \notin metadata'.audio
                   <=> (settings.ENABLE_CACHE /\ ~settings.FORCE_REGENERATE_AUDIO)]_vars

(* a lookup has just removed the entry of a deleted file, and another has  *)
(* returned nothing for a file that is there                               *)
C30_Witness ==
    /\ pc = "get_cached_image"
    /\ result.path = None
    /\ settings.ENABLE_CACHE /\ ~settings.FORCE_REGENERATE_IMAGES
    /\ result.content \notin metadata.images
    /\ \E p \in CachePrompts : p \in metadata.images /\ cache_image_files[p] # None

----------------------------------------------------------------------------
(* Runs of synth.create_video one after the other over the same work       *)
(* directory and the same cache: one-scene scripts, the force flags of     *)
(* --regenerate-images / --regenerate-audio / --regenerate-all set or not  *)
(* by every run, no external timing, no captions                           *)

ReuseScripts == {<<scene>> : scene \in GoodScenes}

ReuseSettings ==
    [ENABLE_CACHE : BOOLEAN, ENABLE_WHISPER_TIMING : {FALSE},
     FORCE_REGENERATE_AUDIO : BOOLEAN, FORCE_REGENERATE_IMAGES : BOOLEAN,
     CHARACTER_CONSISTENCY : {FALSE}, OPENAI_API_KEY : {TRUE},
     ENABLE_CAPTIONS : {FALSE}, ENABLE_CAMERA_MOVEMENT : {TRUE},
     ENABLE_BACKGROUND_MUSIC : {FALSE}]

InitReuse ==
    /\ pc = "start"
    /\ text = <<>>
    /\ duration = 0
    /\ whisper_words = <<>>
    /\ current_time = 0
    /\ result = None
    /\ settings \in ReuseSettings
    /\ metadata = EmptyMetadata
    /\ cache_files = [t \in VoiceoverTexts |-> None]
    /\ assets_dir = [i \in 0..(MaxScenes - 1) |-> None]
    /\ transcription = NoCall
    /\ scene_assets = None
    /\ clip = None
    /\ script \in ReuseScripts
    /\ scene_assets_list = <<>>
    /\ clips = <<>>
    /\ final_video = None
    /\ calls = <<>>
    /\ open_clips = {}
    /\ output_file = "absent"
    /\ dirs = {}
    /\ image_files = [i \in 0..(MaxScenes - 1) |-> None]
    /\ fonts = <<"preferred", "preferred">>
    /\ encode = NoCall
    /\ cache_image_files = [p \in ImagePrompts |-> None]
    /\ music_dir = {}
    /\ channel_dir = None
    /\ available_channels = None

(* synth.main of a new process: the flags set the force settings           *)
(* (synth.py 214-221), then create_video is called with a script and a new *)
(* output path; the files of the work directory and the cache are as the   *)
(* earlier runs left them                                                  *)
NewRun ==
    /\ pc \in {"returned", "raised"}
    /\ pc' = "start"
    /\ \E regenerate_images \in BOOLEAN, regenerate_audio \in BOOLEAN :
          settings' = [settings EXCEPT !.FORCE_REGENERATE_IMAGES = regenerate_images,
                                       !.FORCE_REGENERATE_AUDIO = regenerate_audio]
    /\ script' \in ReuseScripts
    /\ result' = None
    /\ scene_assets_list' = <<>>
    /\ clips' = <<>>
    /\ final_video' = None
    /\ calls' = <<>>
    /\ open_clips' = {}
    /\ output_file' = "absent"
    /\ encode' = NoCall
    /\ UNCHANGED <<text, duration, whisper_words, current_time, metadata,
                   cache_files, assets_dir, transcription, scene_assets, clip, dirs,
                   image_files, fonts, cache_image_files, music_dir, channelVars>>

NextReuse ==
    \/ EnterCreateVideo
    \/ GenerateAssets
    \/ ComposeScene
    \/ WriteVideo
    \/ NewRun

SpecReuse == InitReuse /\ [][NextReuse]_vars

(* Properties of runs over a work directory that holds files *)

(* the provider was called for scene index i in this run *)
CalledIn(log, op, i) == \E n \in 1..Len(log) : log[n] = [op |-> op, scene |-> i]

CalledFor(op, i) == CalledIn(calls, op, i)

(* C25: when regeneration is forced, the image (the audio) of every scene  *)
(* the run has produced assets for was generated by the provider in this   *)
(* run, not taken from the cache and not reused from a file that lay in    *)
(* the assets directory                                                    *)
C25_ForcedIsFresh ==
    \A k \in 1..Len(scene_assets_list) :
       /\ settings.FORCE_REGENERATE_IMAGES => CalledFor("images.generate", k - 1)
       /\ settings.FORCE_REGENERATE_AUDIO => CalledFor("audio.speech.create", k - 1)

(* a step of generate_scene_assets that returns the scene's assets *)
AssetsReturned == Len(scene_assets_list') = Len(scene_assets_list) + 1

(* with the force flag set, a scene whose file is not in the assets        *)
(* directory gets it from the provider, whatever the cache holds           *)
ForcedBypassesCache ==
    [][AssetsReturned =>
          LET i == Len(scene_assets_list)
          IN /\ settings.FORCE_REGENERATE_IMAGES /\ image_files[i] = None
                   => CalledIn(calls', "images.generate", i)
             /\ settings.FORCE_REGENERATE_AUDIO /\ assets_dir[i] = None
                   => CalledIn(calls', "audio.speech.create", i)]_vars

(* C28: the image and the audio a run composes for its scene i were        *)
(* generated from the description and the voiceover text of that run's     *)
(* scene i                                                                 *)
C28_FilesOfOwnScene ==
    \A k \in 1..Len(clips) :
       /\ clips[k].image.prompt.scene = script[k].sceneDescription.str
       /\ clips[k].audio.text = script[k].voiceoverText.str

(* a run that finds no file in the assets directory composes files of its  *)
(* own scenes, from the cache or from the provider                         *)
OwnSceneWhereNoFile ==
    [][AssetsReturned =>
          LET i == Len(scene_assets_list)
          IN /\ image_files[i] = None =>
                   image_files'[i].prompt.scene = script[i + 1].sceneDescription.str
             /\ assets_dir[i] = None =>
                   assets_dir'[i].text = script[i + 1].voiceoverText.str]_vars

----------------------------------------------------------------------------
(* ChannelManager over one channel.  channel_dir is what lies on disk: the *)
(* state of config.json, whether character/character.json is there, and    *)
(* for every video number the directory videos/<number> (None when it does *)
(* not exist) with its script.json and whether it holds an episode_*.mp4.  *)
(* available_channels is the state inside the config the instance read     *)
(* when it was built.  A key of a state is a value or, when the key is     *)
(* absent, None.  pc names the last operation.                             *)

MaxEpisodes == 3         \* video numbers of the channel
MaxGenerations == 2      \* scripts generated for the channel

(* the length previous_topics is cut to *)
TopicsKept == 10

Some(v) == [value |-> v]

(* dict.get(key, default) *)
Get(entry, default) == IF entry = None THEN default ELSE entry.value

(* f"{n:03d}" *)
VideoName(n) == <<n \div 100, (n \div 10) % 10, n % 10>>

(* a < b for two strings of digits *)
RECURSIVE NameLessFrom(_, _, _)
NameLessFrom(a, b, i) ==
    IF i > Len(a) THEN i <= Len(b)
    ELSE IF i > Len(b) THEN FALSE
    ELSE IF a[i] # b[i] THEN a[i] < b[i]
    ELSE NameLessFrom(a, b, i + 1)

NameLess(a, b) == NameLessFrom(a, b, 1)

VideoNumbers == 1..MaxEpisodes

(* a script.json that cannot be loaded *)
Unreadable == [unreadable |-> TRUE]

(* config["content_generation"]["topic_pool"] *)
topic_pool == <<"p", "q">>

(* what _generate_script_with_ai returns: the scenes of the answer or the  *)
(* fallback scenes, which the manager stores and returns unread            *)
GeneratedScripts ==
    {<<[sceneDescription |-> Str(<<"d">>), voiceoverText |-> Str(<<"a">>)]>>}

(* the ten topics of a channel that has made ten episodes *)
TenTopics == [i \in 1..TopicsKept |-> IF i % 2 = 1 THEN "p" ELSE "q"]

NoVideos == [n \in 1..MaxEpisodes |-> None]

(* the directories of a channel whose first two episodes are complete *)
TwoEpisodes ==
    [n \in 1..MaxEpisodes |->
        IF n = 1
        THEN [script |-> [episode_number |-> 1, topic |-> "p",
                          scenes |-> <<[sceneDescription |-> Str(<<"d">>),
                                        voiceoverText |-> Str(<<"a">>)]>>],
              video |-> TRUE]
        ELSE IF n = 2
        THEN [script |-> [episode_number |-> 2, topic |-> "q",
                          scenes |-> <<[sceneDescription |-> Str(<<"e">>),
                                        voiceoverText |-> Str(<<"a", " ", "b">>)]>>],
              video |-> TRUE]
        ELSE None]

(* the channels at the start: a config without state, the state of a new   *)
(* channel, a channel after two episodes, and a channel after ten episodes *)
(* whose video directories were moved away                                 *)
ChannelsAtStart ==
    {[config |-> [episode_count |-> None, previous_topics |-> None],
      videos |-> NoVideos],
     [config |-> [episode_count |-> Some(1), previous_topics |-> Some(<<>>)],
      videos |-> NoVideos],
     [config |-> [episode_count |-> Some(3), previous_topics |-> Some(<<"p", "q">>)],
      videos |-> TwoEpisodes],
     [config |-> [episode_count |-> Some(TopicsKept + 1),
                  previous_topics |-> Some(TenTopics)],
      videos |-> NoVideos]}

(* _get_existing_videos: the numbers of the completed episodes *)
existing_videos == {n \in VideoNumbers :
                       channel_dir.videos[n] # None /\ channel_dir.videos[n].video}

(* the directories with a script.json and no episode_*.mp4 *)
IncompleteEpisodes ==
    {n \in VideoNumbers : channel_dir.videos[n] # None /\ ~channel_dir.videos[n].video}

IncompleteEpisodeLast ==
    IF IncompleteEpisodes = {}
    THEN None
    ELSE Some(CHOOSE n \in IncompleteEpisodes :
                 \A m \in IncompleteEpisodes \ {n} :
                    NameLess(VideoName(m), VideoName(n)))

(* _get_incomplete_episode: the first of them in the order of the names *)
incomplete_episode ==
    IF IncompleteEpisodes = {}
    THEN None
    ELSE Some(CHOOSE n \in IncompleteEpisodes :
                 \A m \in IncompleteEpisodes \ {n} :
                    NameLess(VideoName(n), VideoName(m)))

(* _get_next_video_number, as a number *)
next_video_number ==
    IF existing_videos = {}
    THEN 1
    ELSE (CHOOSE n \in existing_videos : \A m \in existing_videos : m <= n) + 1

(* previous_topics[-3:] *)
LastOf(topics, n) == SubSeq(topics, Max(1, Len(topics) - n + 1), Len(topics))

Range(s) == {s[i] : i \in DOMAIN s}

(* the topics random.choice draws from *)
available_topics(state) ==
    LET recent == Range(LastOf(Get(state.previous_topics, <<>>), 3))
        unused == Range(topic_pool) \ recent
    IN IF unused = {} THEN Range(topic_pool) ELSE unused

(* new_state as generate_episode_script saves it; state is the state of    *)
(* the instance's config                                                   *)
new_state(state, topic) ==
    LET topics == Append(Get(state.previous_topics, <<>>), topic)
    IN [episode_count |-> Some(Get(state.episode_count, 1) + 1),
        previous_topics |-> Some(IF Len(topics) > TopicsKept
                                 THEN LastOf(topics, TopicsKept) ELSE topics)]

(* the state of the instance's config after the call: state.copy() is      *)
(* shallow, so the append goes to the list the config holds, if it holds   *)
(* one; episode_count is set in the copy only                              *)
StateInMemoryAfter(state, topic) ==
    IF state.previous_topics = None
    THEN state
    ELSE [state EXCEPT !.previous_topics =
                          Some(Append(state.previous_topics.value, topic))]

InitChannel ==
    /\ pc = "__init__"
    /\ text = <<>>
    /\ duration = 0
    /\ whisper_words = <<>>
    /\ current_time = 0
    /\ result = None
    /\ PipelineAtRest
    /\ script = <<>>
    /\ scene_assets_list = <<>>
    /\ clips = <<>>
    /\ final_video = None
    /\ calls = <<>>
    /\ open_clips = {}
    /\ output_file = "absent"
    /\ dirs = {}
    /\ image_files = <<>>
    /\ fonts = <<>>
    /\ encode = NoCall
    /\ cache_image_files = [p \in ImagePrompts |-> None]
    /\ music_dir = {}
    /\ \E channel \in ChannelsAtStart, character \in BOOLEAN :
          /\ channel_dir = [config |-> channel.config, character |-> character,
                            videos |-> channel.videos]
          /\ available_channels = channel.config

channelUnchanged ==
    <<text, duration, whisper_words, current_time, settings, metadata, cache_files,
      assets_dir, transcription, scene_assets, clip, script, scene_assets_list,
      clips, final_video, open_clips, output_file, dirs, image_files, fonts,
      encode, cache_image_files, music_dir>>

(* ChannelManager() of a new process: _discover_channels reads config.json *)
NewChannelManager ==
    /\ pc' = "__init__"
    /\ available_channels' = channel_dir.config
    /\ result' = None
    /\ UNCHANGED <<channel_dir, calls>>
    /\ UNCHANGED channelUnchanged

(* generate_episode_script(channel_id, custom_topic) *)
GenerateEpisodeScript ==
    /\ pc' = "generate_episode_script"
    /\ IF ~channel_dir.character
       THEN /\ result' = [error |-> "ValueError", message |-> "Character file not found"]
            /\ UNCHANGED <<channel_dir, available_channels, calls>>
       ELSE IF /\ incomplete_episode # None
               /\ channel_dir.videos[incomplete_episode.value].script # Unreadable
       THEN LET n == incomplete_episode.value
                script_data == channel_dir.videos[n].script
            IN /\ result' = [episode_number |-> script_data.episode_number,
                             video_number |-> VideoName(n),
                             topic |-> script_data.topic,
                             script |-> script_data.scenes,
                             video_dir |-> VideoName(n),
                             is_resume |-> TRUE]
               /\ UNCHANGED <<channel_dir, available_channels, calls>>
       ELSE /\ Len(calls) < MaxGenerations
            /\ next_video_number <= MaxEpisodes
            /\ \E custom_topic \in {None, Some("c")},
                  script_content \in GeneratedScripts :
                  \E topic \in IF custom_topic # None
                               THEN {custom_topic.value}
                               ELSE available_topics(available_channels) :
                     LET n == next_video_number
                         script_data == [episode_number |-> n, topic |-> topic,
                                         scenes |-> script_content]
                     IN /\ calls' = Append(calls, [op |-> "chat.completions.create"])
                        /\ channel_dir' =
                              [channel_dir EXCEPT
                                  !.videos[n] = [script |-> script_data,
                                                 video |-> FALSE],
                                  !.config = new_state(available_channels, topic)]
                        /\ available_channels' =
                              StateInMemoryAfter(available_channels, topic)
                        /\ result' = [episode_number |-> n,
                                      video_number |-> VideoName(n),
                                      topic |-> topic,
                                      script |-> script_content,
                                      video_dir |-> VideoName(n),
                                      is_resume |-> FALSE]
    /\ UNCHANGED channelUnchanged

(* synth.main after the script: create_video writes                        *)
(* episode_<video_number>.mp4 into the episode's directory                 *)
RenderEpisode ==
    /\ pc = "generate_episode_script"
    /\ ~Raised(result)
    /\ pc' = "create_video"
    /\ channel_dir' = [channel_dir EXCEPT !.videos[result.episode_number].video = TRUE]
    /\ UNCHANGED <<result, available_channels, calls>>
    /\ UNCHANGED channelUnchanged

(* from outside the program: the video of a completed episode is removed *)
RemoveVideo ==
    /\ pc' = "outside"
    /\ \E n \in existing_videos :
          channel_dir' = [channel_dir EXCEPT !.videos[n].video = FALSE]
    /\ result' = None
    /\ UNCHANGED <<available_channels, calls>>
    /\ UNCHANGED channelUnchanged

(* from outside the program: a script.json becomes unreadable *)
DamageScript ==
    /\ pc' = "outside"
    /\ \E n \in VideoNumbers :
          /\ channel_dir.videos[n] # None
          /\ channel_dir.videos[n].script # Unreadable
          /\ channel_dir' = [channel_dir EXCEPT !.videos[n].script = Unreadable]
    /\ result' = None
    /\ UNCHANGED <<available_channels, calls>>
    /\ UNCHANGED channelUnchanged

NextChannel ==
    \/ NewChannelManager
    \/ GenerateEpisodeScript
    \/ RenderEpisode
    \/ RemoveVideo
    \/ DamageScript

SpecChannel == InitChannel /\ [][NextChannel]_vars

(* Properties of the episodes of a channel *)

(* a step that is a call of generate_episode_script *)
EpisodeCall == pc' = "generate_episode_script"

(* the incomplete episodes whose script.json loads *)
LoadableIncomplete ==
    {n \in IncompleteEpisodes : channel_dir.videos[n].script # Unreadable}

Lowest(S) == CHOOSE n \in S : \A m \in S : n <= m

(* the call resumes episode n: it returns that directory's scenes, marked  *)
(* as a resume, makes no directory, writes no script, calls no generator   *)
(* and leaves the state as it was persisted                                *)
Resumes(n) ==
    /\ ~Raised(result')
    /\ result'.is_resume
    /\ result'.video_number = VideoName(n)
    /\ result'.video_dir = VideoName(n)
    /\ result'.script = channel_dir.videos[n].script.scenes
    /\ channel_dir' = channel_dir
    /\ calls' = calls

(* C26, as claimed: when at least one episode directory has a script.json  *)
(* that loads and no episode_*.mp4, generate_episode_script resumes the    *)
(* lowest-numbered such directory and changes nothing                      *)
C26_ResumesLowestLoadable ==
    [][EpisodeCall /\ channel_dir.character /\ LoadableIncomplete # {}
          => Resumes(Lowest(LoadableIncomplete))]_vars

NewEpisodeCall == EpisodeCall /\ ~Raised(result') /\ ~result'.is_resume

(* the persisted count goes up by one and the persisted topics are the     *)
(* earlier ones and the new one, cut to the last ten                       *)
CountedAndRecorded ==
    LET persisted == channel_dir.config
        topics == Append(Get(persisted.previous_topics, <<>>), result'.topic)
    IN /\ channel_dir'.config.episode_count
             = Some(Get(persisted.episode_count, 1) + 1)
       /\ channel_dir'.config.previous_topics
             = Some(IF Len(topics) > TopicsKept
                    THEN LastOf(topics, TopicsKept) ELSE topics)
       /\ Len(channel_dir'.config.previous_topics.value) <= TopicsKept

(* C29: on one ChannelManager instance, every call that creates a new      *)
(* episode raises the persisted episode_count by exactly 1 over the value  *)
(* persisted before it and appends its topic to the persisted topics       *)
(* without losing earlier ones, other than by the cut to the last 10       *)
C29_CountedAndRecorded ==
    [][NewEpisodeCall => CountedAndRecorded]_vars

(* the first new episode of an instance, whose config is as persisted, is  *)
(* counted and recorded                                                    *)
FirstEpisodeCounted ==
    [][NewEpisodeCall /\ available_channels = channel_dir.config
          => CountedAndRecorded]_vars

(* the persisted list never exceeds ten topics *)
TopicsAtMostKept ==
    channel_dir.config.previous_topics # None
       => Len(channel_dir.config.previous_topics.value) <= TopicsKept

====
